---- MODULE Spec2Model ----
(***************************************************************************)
(* Model of the scheduling engine of TaskOrganizer (src/scheduler.py):     *)
(* TaskScheduler.generate_schedule and its helpers, and of the session of  *)
(* src/app.py around it (the generate button and the export tab).          *)
(*                                                                         *)
(* Units.  A time of day is a number of minutes since midnight (the code   *)
(* only ever reads hour*60+minute).  A duration in hours is a number of    *)
(* ticks of 1/300 h (12 s): a minute is 5 ticks and 0.01 h is 3 ticks, so  *)
(* minutes/60.0, the 0.01 h tolerance and the 0.5 h minimum block are all  *)
(* whole numbers and the float arithmetic of the code is modelled exactly  *)
(* (up to IEEE rounding noise).  A date is a number of days from today.    *)
(***************************************************************************)
EXTENDS Integers, Sequences, FiniteSets, TLC

\* ---------------------------------------------------------------- bounds
MaxTasks == 2
HorizonDays == 1
\* calls of generate_schedule in one session
MaxCalls == 2
\* blocks exported in one session
MaxExported == 2

\* ------------------------------------------------------ program constants
\* TaskScheduler.MIN_BLOCK_HOURS = 0.5, in ticks
MIN_BLOCK_HOURS == 150
\* the tolerance 0.01 h of "remaining_hours() < 0.01", in ticks
EPSILON == 3
\* _add_hours_to_time clamps at 23:59
DAY_END_MINUTES == 1439
\* the lunch window time(12, 0) .. time(13, 0)
LUNCH_START == 720
LUNCH_END == 780
\* date.weekday() == 6 is Sunday
SUNDAY == 6

PRIORITY_VALUES == [Haute |-> 3, Normale |-> 2, Basse |-> 1]

Min2(a, b) == IF a <= b THEN a ELSE b
Max2(a, b) == IF a >= b THEN a ELSE b

\* time(h, 0)
HourTime(h) == h * 60

\* ------------------------------------------------------- time utilities
\* minutes/60.0 hours is minutes*5 ticks; 0 when b <= a
_time_diff_hours(a, b) == Max2(0, (b - a) * 5)

\* int(round(hours * 60)): ticks/5 minutes rounded to the nearest minute
\* (a tick count is never half-way between two minutes)
RoundMinutes(hours) == (hours + 2) \div 5

_add_hours_to_time(t, hours) == Min2(t + RoundMinutes(hours), DAY_END_MINUTES)

\* mutant: a range strictly inside an interval leaves only what precedes it
SubtractOneNoSplit(s, e, rem_start, rem_end) ==
    IF rem_end <= s \/ rem_start >= e THEN << <<s, e>> >>
    ELSE IF rem_start <= s /\ rem_end >= e THEN << >>
    ELSE IF rem_start <= s THEN (IF rem_end < e THEN << <<rem_end, e>> >> ELSE << >>)
    ELSE << <<s, rem_start>> >>

\* what _subtract_range does to one interval (s, e)
SubtractOne(s, e, rem_start, rem_end) ==
    IF rem_end <= s \/ rem_start >= e THEN << <<s, e>> >>
    ELSE IF rem_start <= s /\ rem_end >= e THEN << >>
    ELSE IF rem_start > s /\ rem_end < e THEN << <<s, rem_start>>, <<rem_end, e>> >>
    ELSE IF rem_start <= s THEN (IF rem_end < e THEN << <<rem_end, e>> >> ELSE << >>)
    ELSE << <<s, rem_start>> >>

RECURSIVE _subtract_range(_, _, _)
_subtract_range(slots, rem_start, rem_end) ==
    IF slots = << >> THEN << >>
    ELSE SubtractOne(Head(slots)[1], Head(slots)[2], rem_start, rem_end)
         \o _subtract_range(Tail(slots), rem_start, rem_end)

\* ------------------------------------------------------------ orderings
\* Python's tuple comparison a < b on tuples of the same length
RECURSIVE LexLess(_, _)
LexLess(a, b) ==
    IF a = << >> THEN FALSE
    ELSE IF Head(a) # Head(b) THEN Head(a) < Head(b)
    ELSE LexLess(Tail(a), Tail(b))

\* insert x after every element whose key is not greater (stable)
RECURSIVE InsertStable(_, _, _)
InsertStable(x, sorted, key) ==
    IF sorted = << >> THEN <<x>>
    ELSE IF LexLess(key[x], key[Head(sorted)]) THEN <<x>> \o sorted
    ELSE <<Head(sorted)>> \o InsertStable(x, Tail(sorted), key)

\* sorted(seq, key=...) of Python: stable, ascending
RECURSIVE StableSort(_, _)
StableSort(seq, key) ==
    IF seq = << >> THEN << >>
    ELSE InsertStable(seq[Len(seq)], StableSort(SubSeq(seq, 1, Len(seq) - 1), key), key)


\* ------------------------------------------------------------ the inputs
NoPin == [date |-> 0 - 99, time |-> 0]

\* Task(duration_hours, deadline, priority, pin_datetime); the id of a task is
\* its position in the caller's list (uuid ids are unique).
Task(duration_hours, deadline, priority, pin_datetime) ==
    [duration_hours |-> duration_hours, deadline |-> deadline, priority |-> priority,
     pin_datetime |-> pin_datetime]

\* Regular tasks: 0.25 h (below the minimum block), 1 h + 2 ticks (a float a
\* hair above 1 h), 1.25 h, 1.5 h due the day after the horizon, and one whose
\* deadline is yesterday.
RegularTasks ==
    { Task(75, 1, "Basse", NoPin),
      Task(302, 0, "Haute", NoPin),
      Task(375, 1, "Haute", NoPin),
      Task(450, HorizonDays + 1, "Basse", NoPin),
      Task(150, 0 - 1, "Normale", NoPin) }

\* Pinned tasks; a pinned task's deadline is its pinned date (src/app.py:465).
\* 09:30-10:00, 10:30-11:30, 11:00-12:30 today; 11:00-12:00, 13:00-14:30 tomorrow.
PinnedTasks ==
    { Task(150, 0, "Normale", [date |-> 0, time |-> 570]),
      Task(302, 0, "Haute", [date |-> 0, time |-> 630]),
      Task(450, 0, "Normale", [date |-> 0, time |-> 660]),
      Task(302, 1, "Normale", [date |-> 1, time |-> 660]),
      Task(450, 1, "Basse", [date |-> 1, time |-> 780]) }

TaskInputs == RegularTasks \cup PinnedTasks

\* OccupiedSlot(date, start_time, end_time, slot_type), end after start
\* (src/app.py:709); slots may overlap each other.
\* 10:00-11:40, 11:30-12:30, 13:30-14:00 today; 10:30-12:00 tomorrow.
Slot(date, start_time, end_time, slot_type) ==
    [date |-> date, start_time |-> start_time, end_time |-> end_time,
     slot_type |-> slot_type]

SlotCatalogue ==
    << Slot(0, 600, 700, "Cours"),
       Slot(0, 690, 750, "Google Calendar"),
       Slot(0, 810, 840, "Exporte"),
       Slot(1, 630, 720, "Autre") >>

\* the occupied lists: the sublists of the catalogue
SlotInputs ==
    { LET Chosen(o) == \E k \in S : o = SlotCatalogue[k]
      IN  SelectSeq(SlotCatalogue, Chosen) : S \in SUBSET (1 .. Len(SlotCatalogue)) }

\* working window 10:00-14:00, at most 1 h or 2 h of tasks a day
ConstraintInputs ==
    [max_hours_per_day : {300, 600}, start_hour : {10}, end_hour : {14},
     no_sunday : BOOLEAN, lunch_break : BOOLEAN]

SeqsUpTo(S, n) == UNION { [1 .. m -> S] : m \in 0 .. n }

\* calendar dates: yesterday .. the day after the horizon; today is 0
Dates == (0 - 1) .. (HorizonDays + 1)

VARIABLES
    tasks,             \* self.tasks: the task specifications (copies)
    occupied_slots,    \* self.occupied_slots
    constraints,       \* self.constraints
    today_weekday,     \* self.today.weekday()
    pc,                \* position in generate_schedule
    pos,               \* index of the next task of the running pass
    pinned_occupied,   \* accepted pinned intervals <<date, start, end>>
    free_slots,        \* date -> list of <<start, end>>
    calendar,          \* result.calendar: date -> list of agenda items
    scheduled_blocks,  \* task.scheduled_blocks, per task
    is_scheduled,      \* task.is_scheduled, per task
    is_impossible,     \* task.is_impossible, per task
    impossible_reason, \* task.impossible_reason, per task
    scheduled_tasks,   \* result.scheduled_tasks (task ids)
    impossible_tasks,  \* result.impossible_tasks (task ids)
    messages,          \* result.messages
    caller_tasks,      \* the Task objects the caller passed to TaskScheduler
    session_slots,     \* st.session_state.occupied_slots
    exported,          \* st.session_state.exported_blocks_detail
    previous,          \* the previous call: its constraints and ScheduleResult
    calls,             \* the number of calls of generate_schedule so far
    planner_tasks,     \* TaskPlanner.tasks (src/main.py)
    busy_slots,        \* TaskPlanner.busy_slots
    planner_constraints, \* TaskPlanner.constraints
    planner_pc,        \* position in TaskPlanner.plan_tasks
    planner_pos,       \* index of the next task of plan_tasks' loop
    planner_free_slots, \* free_slots of plan_tasks
    scheduled_slots,   \* Task.scheduled_slots, per planner task
    is_planned,        \* Task.is_planned, per planner task
    planned_tasks,     \* planned_tasks of plan_tasks (task positions)
    unplanned_tasks    \* unplanned_tasks of plan_tasks

inputs == <<tasks, occupied_slots, constraints, today_weekday>>
session == <<session_slots, exported, previous, calls>>
planner == <<planner_tasks, busy_slots, planner_constraints, planner_pc, planner_pos,
             planner_free_slots, scheduled_slots, is_planned, planned_tasks,
             unplanned_tasks>>
vars == <<tasks, occupied_slots, constraints, today_weekday, pc, pos,
          pinned_occupied, free_slots, calendar, scheduled_blocks, is_scheduled,
          is_impossible, impossible_reason, scheduled_tasks, impossible_tasks,
          messages, caller_tasks, session_slots, exported, previous, calls,
          planner_tasks, busy_slots, planner_constraints, planner_pc, planner_pos,
          planner_free_slots, scheduled_slots, is_planned, planned_tasks,
          unplanned_tasks>>

TaskIds == 1 .. Len(tasks)

NoReason == [kind |-> "", a |-> 0, b |-> 0]

\* Task.scheduled_hours / Task.remaining_hours on a list of blocks
RECURSIVE scheduled_hours(_)
scheduled_hours(blocks) ==
    IF blocks = << >> THEN 0
    ELSE Head(blocks).duration_hours + scheduled_hours(Tail(blocks))

remaining_hours(duration, blocks) == Max2(0, duration - scheduled_hours(blocks))

priority_value(t) == PRIORITY_VALUES[t.priority]

\* pinned_tasks / regular_tasks of generate_schedule, as lists of ids
AllIds == [i \in TaskIds |-> i]
IsPinned(i) == tasks[i].pin_datetime # NoPin
\* mutant: tasks whose deadline is already past are dropped from the greedy pass
IsRegularNotOverdue(i) == tasks[i].pin_datetime = NoPin /\ tasks[i].deadline >= 0
IsRegular(i) == tasks[i].pin_datetime = NoPin

\* sorted(pinned_tasks, key=lambda t: t.pin_datetime)
PinnedOrder ==
    StableSort(SelectSeq(AllIds, IsPinned),
               [i \in TaskIds |-> <<tasks[i].pin_datetime.date, tasks[i].pin_datetime.time>>])

\* mutant: the regular tasks are taken in the caller's order
_sort_tasks_input_order == SelectSeq(AllIds, IsRegular)

\* _sort_tasks(regular_tasks): (days_left, -priority_value, duration_hours)
_sort_tasks ==
    StableSort(SelectSeq(AllIds, IsRegular),
               [i \in TaskIds |->
                  <<tasks[i].deadline, 0 - priority_value(tasks[i]), tasks[i].duration_hours>>])

_is_working_day(d) ==
    ~(constraints.no_sunday /\ (today_weekday + d + 7) % 7 = SUNDAY)

\* a Task object as the caller builds it: the fields "filled after planning"
\* have their dataclass defaults
TaskObject(t) ==
    [task |-> t, own |-> FALSE, scheduled_blocks |-> << >>, is_scheduled |-> FALSE,
     is_impossible |-> FALSE, impossible_reason |-> NoReason]

\* mutant: the scheduler keeps the caller's Task object itself
_copy_task_same(o) == o

\* _copy_task: a new object of the scheduler's own, with the caller's title,
\* duration, deadline, priority, notes, id, pin and recurrence fields, and the
\* defaults for the fields filled after planning
_copy_task(o) ==
    [task |-> o.task, own |-> TRUE, scheduled_blocks |-> << >>, is_scheduled |-> FALSE,
     is_impossible |-> FALSE, impossible_reason |-> NoReason]

\* self.tasks[i] is an object of the scheduler's own, not the caller's
OwnObject(i) == _copy_task(caller_tasks[i]).own

\* a ScheduleResult as the caller reads it, with the constraints of its run
Result ==
    [calendar |-> calendar, scheduled_tasks |-> scheduled_tasks,
     impossible_tasks |-> impossible_tasks, messages |-> messages]

Run == [constraints |-> constraints, result |-> Result]

NoRun ==
    [constraints |-> [max_hours_per_day |-> 0, start_hour |-> 0, end_hour |-> 0,
                      no_sunday |-> FALSE, lunch_break |-> FALSE],
     result |-> [calendar |-> << >>, scheduled_tasks |-> << >>,
                 impossible_tasks |-> << >>, messages |-> << >>]]

\* TaskScheduler(tasks, occupied_slots, constraints): the fields __init__ sets
\* (lines 117-121)
NewScheduler(caller, slots, c) ==
    [tasks |-> [i \in DOMAIN caller |-> _copy_task(caller[i]).task],
     scheduled_blocks |-> [i \in DOMAIN caller |-> _copy_task(caller[i]).scheduled_blocks],
     is_scheduled |-> [i \in DOMAIN caller |-> _copy_task(caller[i]).is_scheduled],
     is_impossible |-> [i \in DOMAIN caller |-> _copy_task(caller[i]).is_impossible],
     impossible_reason |-> [i \in DOMAIN caller |-> _copy_task(caller[i]).impossible_reason],
     occupied_slots |-> slots,
     constraints |-> c]

Construct(caller, slots, c) ==
    LET new == NewScheduler(caller, slots, c)
    IN  /\ tasks = new.tasks
        /\ scheduled_blocks = new.scheduled_blocks
        /\ is_scheduled = new.is_scheduled
        /\ is_impossible = new.is_impossible
        /\ impossible_reason = new.impossible_reason
        /\ occupied_slots = new.occupied_slots
        /\ constraints = new.constraints

\* the entry of generate_schedule: an empty result, no pinned interval yet
\* (lines 124, 131, 155)
Enter ==
    /\ pc = "pinned"
    /\ pos = 1
    /\ pinned_occupied = << >>
    /\ free_slots = [d \in Dates |-> << >>]
    /\ calendar = [d \in Dates |-> << >>]
    /\ scheduled_tasks = << >>
    /\ impossible_tasks = << >>
    /\ messages = << >>

\* the same entry as a step: generate_schedule is called once more
Reenter ==
    /\ pc' = "pinned"
    /\ pos' = 1
    /\ pinned_occupied' = << >>
    /\ free_slots' = [d \in Dates |-> << >>]
    /\ calendar' = [d \in Dates |-> << >>]
    /\ scheduled_tasks' = << >>
    /\ impossible_tasks' = << >>
    /\ messages' = << >>
    /\ previous' = Run
    /\ calls' = calls + 1

\* a session that has not exported anything and a first call
FirstCall ==
    /\ exported = << >>
    /\ previous = NoRun
    /\ calls = 1

\* the session uses TaskScheduler: there is no TaskPlanner of the earlier
\* engine (src/main.py)
NoPlanner ==
    /\ planner_tasks = << >>
    /\ busy_slots = << >>
    /\ planner_constraints = [latest_hour |-> 0, no_sunday |-> FALSE]
    /\ planner_pc = "none"
    /\ planner_pos = 0
    /\ planner_free_slots = << >>
    /\ scheduled_slots = << >>
    /\ is_planned = << >>
    /\ planned_tasks = << >>
    /\ unplanned_tasks = << >>

\* a first call on a new scheduler, for inputs drawn from the given sets
Start(task_lists, slot_lists, constraint_set, weekdays) ==
    /\ NoPlanner
    /\ caller_tasks \in { [i \in DOMAIN ts |-> TaskObject(ts[i])] : ts \in task_lists }
    /\ session_slots \in slot_lists
    /\ today_weekday \in weekdays
    /\ \E c \in constraint_set : Construct(caller_tasks, session_slots, c)
    /\ Enter
    /\ FirstCall

Init == Start(SeqsUpTo(TaskInputs, MaxTasks), SlotInputs, ConstraintInputs, {5, 6})

\* what the caller's Task objects hold after a step that wrote the fields of
\* self.tasks: a write lands on the caller's object when the scheduler's
\* object is that same object
CallerSees ==
    caller_tasks' =
        [i \in DOMAIN caller_tasks |->
            IF OwnObject(i) THEN caller_tasks[i]
            ELSE [caller_tasks[i] EXCEPT !.scheduled_blocks = scheduled_blocks'[i],
                                         !.is_scheduled = is_scheduled'[i],
                                         !.is_impossible = is_impossible'[i],
                                         !.impossible_reason = impossible_reason'[i]]]


\* ------------------------------------------------- 1. the pinned pass
\* pin_datetime.time().replace(second=0, microsecond=0)
PinDate(i) == tasks[i].pin_datetime.date
PinStart(i) == tasks[i].pin_datetime.time
PinEnd(i) == _add_hours_to_time(PinStart(i), tasks[i].duration_hours)

\* mutant: only the start of the pinned interval is tested against the window
OutsideWindowStartOnly(pin_start, pin_end) ==
    pin_start < HourTime(constraints.start_hour)

\* the working-window test of _schedule_pinned_task
OutsideWindow(pin_start, pin_end) ==
    \/ pin_start < HourTime(constraints.start_hour)
    \/ pin_end > HourTime(constraints.end_hour)

\* mutant: intervals that only touch count as a conflict
ConflictsTouching(pin_start, pin_end, start, end) == ~(pin_end < start \/ pin_start > end)

\* the interval test used for occupied slots and pinned intervals
Conflicts(pin_start, pin_end, start, end) == ~(pin_end <= start \/ pin_start >= end)

\* mutant: the slots of category "Exporte" are not looked at
OccConflictsButExported(pin_date, pin_start, pin_end) ==
    { k \in DOMAIN occupied_slots :
        /\ occupied_slots[k].slot_type # "Exporte"
        /\ occupied_slots[k].date = pin_date
        /\ Conflicts(pin_start, pin_end,
                     occupied_slots[k].start_time, occupied_slots[k].end_time) }

\* indices of the occupied slots the pinned interval conflicts with
OccConflicts(pin_date, pin_start, pin_end) ==
    { k \in 1 .. Len(occupied_slots) :
        /\ occupied_slots[k].date = pin_date
        /\ Conflicts(pin_start, pin_end,
                     occupied_slots[k].start_time, occupied_slots[k].end_time) }

\* mutant: earlier pinned tasks are not looked at
PinConflictsNone(pin_date, pin_start, pin_end, accepted) == {}

\* indices of the accepted pinned intervals the pinned interval conflicts with
PinConflicts(pin_date, pin_start, pin_end, accepted) ==
    { k \in 1 .. Len(accepted) :
        /\ accepted[k][1] = pin_date
        /\ Conflicts(pin_start, pin_end, accepted[k][2], accepted[k][3]) }

MinOf(S) == CHOOSE x \in S : \A y \in S : x <= y

\* task.impossible_reason as _schedule_pinned_task sets it, NoReason on success:
\* the first failing check, and in it the first conflicting interval
PinnedReason(i, accepted) ==
    LET occ == OccConflicts(PinDate(i), PinStart(i), PinEnd(i))
        pin == PinConflicts(PinDate(i), PinStart(i), PinEnd(i), accepted)
    IN  IF OutsideWindow(PinStart(i), PinEnd(i))
        THEN [kind |-> "hors plage", a |-> constraints.start_hour, b |-> constraints.end_hour]
        ELSE IF occ # {}
        THEN [kind |-> "conflit occupe", a |-> occupied_slots[MinOf(occ)].start_time,
              b |-> occupied_slots[MinOf(occ)].end_time]
        ELSE IF pin # {}
        THEN [kind |-> "conflit fixe", a |-> accepted[MinOf(pin)][2],
              b |-> accepted[MinOf(pin)][3]]
        ELSE NoReason

\* the return value of _schedule_pinned_task
_schedule_pinned_task(i, accepted) == PinnedReason(i, accepted) = NoReason

\* mutant: the pinned block is cut at the daily cap (a partial pinned block)
PinnedBlockCapped(i) ==
    LET hours == Min2(tasks[i].duration_hours, constraints.max_hours_per_day)
    IN  [date |-> PinDate(i), start_time |-> PinStart(i),
         end_time |-> _add_hours_to_time(PinStart(i), hours), duration_hours |-> hours]

\* the block _schedule_pinned_task records on the task
PinnedBlock(i) ==
    [date |-> PinDate(i), start_time |-> PinStart(i), end_time |-> PinEnd(i),
     duration_hours |-> tasks[i].duration_hours]

\* an agenda item of type "task" for a block
\* _build_reason: the urgency wording depends on the days from day to deadline
_build_reason(i, day) ==
    LET days_left == tasks[i].deadline - day
    IN  IF days_left <= 1 THEN "deadline DEMAIN"
        ELSE IF days_left <= 3 THEN "deadline dans j"
        ELSE "deadline le"

TaskItem(i, block, fixed) ==
    [type |-> "task", task_id |-> i, slot_type |-> "", start_time |-> block.start_time,
     end_time |-> block.end_time, duration_hours |-> block.duration_hours,
     priority |-> tasks[i].priority,
     reason |-> [fixed |-> fixed, urgency |-> _build_reason(i, block.date)]]

Message(kind, i, block, reason) ==
    [kind |-> kind, task |-> i, date |-> block.date, start_time |-> block.start_time,
     end_time |-> block.end_time, hours |-> block.duration_hours, reason |-> reason]

NoBlock == [date |-> 0, start_time |-> 0, end_time |-> 0, duration_hours |-> 0]

PinnedAccept ==
    /\ pc = "pinned"
    /\ pos <= Len(PinnedOrder)
    /\ LET i == PinnedOrder[pos]
           block == PinnedBlock(i)
       IN  /\ _schedule_pinned_task(i, pinned_occupied)
           /\ calendar' = [calendar EXCEPT ![block.date] =
                             Append(@, TaskItem(i, block, TRUE))]
           /\ scheduled_blocks' = [scheduled_blocks EXCEPT ![i] = Append(@, block)]
           /\ is_scheduled' = [is_scheduled EXCEPT ![i] = TRUE]
           /\ is_impossible' = [is_impossible EXCEPT ![i] = FALSE]
           /\ scheduled_tasks' = Append(scheduled_tasks, i)
           /\ pinned_occupied' =
                Append(pinned_occupied, <<PinDate(i), PinStart(i), PinEnd(i)>>)
           /\ messages' = Append(messages, Message("fixe", i, block, NoReason))
    /\ pos' = pos + 1
    /\ UNCHANGED <<inputs, session, planner, pc, free_slots, impossible_reason, impossible_tasks>>
    /\ CallerSees

PinnedReject ==
    /\ pc = "pinned"
    /\ pos <= Len(PinnedOrder)
    /\ LET i == PinnedOrder[pos]
           reason == PinnedReason(i, pinned_occupied)
       IN  /\ ~_schedule_pinned_task(i, pinned_occupied)
           /\ impossible_reason' = [impossible_reason EXCEPT ![i] = reason]
           /\ is_scheduled' = [is_scheduled EXCEPT ![i] = FALSE]
           /\ is_impossible' = [is_impossible EXCEPT ![i] = TRUE]
           /\ impossible_tasks' = Append(impossible_tasks, i)
           /\ messages' = Append(messages, Message("fixe impossible", i, NoBlock, reason))
    /\ pos' = pos + 1
    /\ UNCHANGED <<inputs, session, planner, pc, pinned_occupied, free_slots, calendar,
                   scheduled_blocks, scheduled_tasks>>
    /\ CallerSees

\* ------------------------------------------- 2. the free slots of a day
RECURSIVE SubtractAll(_, _)
SubtractAll(slots, ranges) ==
    IF ranges = << >> THEN slots
    ELSE SubtractAll(_subtract_range(slots, Head(ranges)[1], Head(ranges)[2]), Tail(ranges))

\* mutant: the slots re-derived from exported blocks are not subtracted
OccupiedRangesButExported(d) ==
    LET OnDay(o) == o.date = d /\ o.slot_type # "Exporte"
        sel == SelectSeq(occupied_slots, OnDay)
    IN  [k \in 1 .. Len(sel) |-> <<sel[k].start_time, sel[k].end_time>>]

\* the occupied slots of date d, as <<start, end>>, in list order
OccupiedRanges(d) ==
    LET OnDay(o) == o.date = d
        sel == SelectSeq(occupied_slots, OnDay)
    IN  [k \in 1 .. Len(sel) |-> <<sel[k].start_time, sel[k].end_time>>]

\* mutant: the accepted pinned intervals are not subtracted from the free slots
PinnedRangesNone(d, accepted) == << >>

\* the accepted pinned intervals of date d, as <<start, end>>, in list order
PinnedRanges(d, accepted) ==
    LET OnDay(p) == p[1] = d
        sel == SelectSeq(accepted, OnDay)
    IN  [k \in 1 .. Len(sel) |-> <<sel[k][2], sel[k][3]>>]

\* mutant: a quarter of an hour is long enough for a block
TooShortQuarter(hours) == 2 * hours < MIN_BLOCK_HOURS

\* mutant: any positive duration is long enough for a block
TooShortNever(hours) == hours <= 0

\* "< self.MIN_BLOCK_HOURS": too short for a block
TooShort(hours) == hours < MIN_BLOCK_HOURS

LongEnough(slot) == ~TooShort(_time_diff_hours(slot[1], slot[2]))

_compute_free_slots(d, accepted) ==
    LET window == << <<HourTime(constraints.start_hour), HourTime(constraints.end_hour)>> >>
        lunch == IF constraints.lunch_break
                 THEN _subtract_range(window, LUNCH_START, LUNCH_END)
                 ELSE window
        occ == SubtractAll(lunch, OccupiedRanges(d))
        pin == SubtractAll(occ, PinnedRanges(d, accepted))
    IN  SelectSeq(pin, LongEnough)

ComputeFreeSlots ==
    /\ pc = "pinned"
    /\ pos > Len(PinnedOrder)
    /\ free_slots' = [d \in Dates |->
                        IF d \in 0 .. HorizonDays /\ _is_working_day(d)
                        THEN _compute_free_slots(d, pinned_occupied)
                        ELSE << >>]
    /\ pc' = "greedy"
    /\ pos' = 1
    /\ UNCHANGED <<inputs, session, planner, caller_tasks, pinned_occupied, calendar,
                   scheduled_blocks, is_scheduled, is_impossible, impossible_reason,
                   scheduled_tasks, impossible_tasks, messages>>


\* ------------------------------------------------- 3. the greedy pass
\* _task_hours_on_day: the hours of the "task" items of a day's agenda
RECURSIVE TaskHours(_)
TaskHours(items) ==
    IF items = << >> THEN 0
    ELSE (IF Head(items).type = "task" THEN Head(items).duration_hours ELSE 0)
         + TaskHours(Tail(items))

_task_hours_on_day(cal, d) == TaskHours(cal[d])

\* mutant: a block is never longer than one hour
UseHoursAtMostOneHour(remaining, slot_dur, available_today) ==
    Min2(Min2(Min2(remaining, slot_dur), available_today), 2 * MIN_BLOCK_HOURS)

\* min(task.remaining_hours(), slot_dur, available_today)
UseHours(remaining, slot_dur, available_today) ==
    Min2(Min2(remaining, slot_dur), available_today)

\* what is left of a free interval after a block that ends at block_end
Remainder(block_end, slot_end) ==
    IF block_end < slot_end THEN << <<block_end, slot_end>> >> ELSE << >>

\* the loop over the free intervals of one day (lines 181-229):
\* blocks is task.scheduled_blocks so far, updated the new list of the day
RECURSIVE SlotLoop(_, _, _, _, _, _)
SlotLoop(slots, duration, blocks, available_today, day, updated) ==
    IF slots = << >> THEN [blocks |-> blocks, updated |-> updated]
    ELSE
      LET slot_start == Head(slots)[1]
          slot_end == Head(slots)[2]
          remaining == remaining_hours(duration, blocks)
          slot_dur == _time_diff_hours(slot_start, slot_end)
          use == UseHours(remaining, slot_dur, available_today)
          block_end == _add_hours_to_time(slot_start, use)
      IN  IF \/ remaining < EPSILON
             \/ TooShort(available_today)
             \/ TooShort(slot_dur)
             \/ TooShort(use)
          THEN SlotLoop(Tail(slots), duration, blocks, available_today, day,
                        Append(updated, Head(slots)))
          ELSE SlotLoop(Tail(slots), duration,
                        Append(blocks, [date |-> day, start_time |-> slot_start,
                                        end_time |-> block_end, duration_hours |-> use]),
                        available_today - use, day,
                        updated \o Remainder(block_end, slot_end))

\* mutant: the daily cap is not applied
AvailableTodayUncapped(cal, day) == 24 * 2 * MIN_BLOCK_HOURS

\* the hours of the day still open to tasks
AvailableToday(cal, day) == constraints.max_hours_per_day - _task_hours_on_day(cal, day)

\* mutant: the walk over the days does not stop at the deadline
AfterDeadlineNever(i, d) == FALSE

\* "if day > task.deadline: break"
AfterDeadline(i, d) == d > tasks[i].deadline

\* the loop over the days (lines 167-229), from day d on; cal is the agenda
\* as it was when the task was taken up (each day is visited once)
RECURSIVE DayLoop(_, _, _, _, _)
DayLoop(i, d, blocks, free, cal) ==
    IF \/ d > HorizonDays
       \/ AfterDeadline(i, d)
       \/ remaining_hours(tasks[i].duration_hours, blocks) < EPSILON
    THEN [blocks |-> blocks, free |-> free]
    ELSE IF TooShort(AvailableToday(cal, d))
    THEN DayLoop(i, d + 1, blocks, free, cal)
    ELSE LET r == SlotLoop(free[d], tasks[i].duration_hours, blocks,
                           AvailableToday(cal, d), d, << >>)
         IN  DayLoop(i, d + 1, r.blocks, [free EXCEPT ![d] = r.updated], cal)

\* the blocks of date d among a list of blocks, as agenda items of task i
RECURSIVE ItemsOn(_, _, _)
ItemsOn(i, d, blocks) ==
    IF blocks = << >> THEN << >>
    ELSE (IF Head(blocks).date = d THEN <<TaskItem(i, Head(blocks), FALSE)>> ELSE << >>)
         \o ItemsOn(i, d, Tail(blocks))

\* mutant: only the first block of a task is reported
BlockMessagesFirstOnly(i, blocks) ==
    [k \in 1 .. Min2(1, Len(blocks)) |-> Message("bloc", i, blocks[k], NoReason)]

\* the messages of the blocks placed by the greedy loop (lines 218-222)
BlockMessages(i, blocks) ==
    [k \in 1 .. Len(blocks) |-> Message("bloc", i, blocks[k], NoReason)]

\* sum of the free intervals of the dates up to the deadline
RECURSIVE SlotHours(_)
SlotHours(slots) ==
    IF slots = << >> THEN 0
    ELSE _time_diff_hours(Head(slots)[1], Head(slots)[2]) + SlotHours(Tail(slots))

RECURSIVE TotalFree(_, _, _)
TotalFree(free, d, deadline) ==
    IF d > HorizonDays \/ d > deadline THEN 0
    ELSE SlotHours(free[d]) + TotalFree(free, d + 1, deadline)

\* mutant: the shortfall variant whatever the free time
_explain_impossible_numeric(i, free) ==
    [kind |-> "pas assez", a |-> TotalFree(free, 0, tasks[i].deadline),
     b |-> tasks[i].duration_hours]

_explain_impossible(i, free) ==
    LET total_free == TotalFree(free, 0, tasks[i].deadline)
    IN  IF total_free < tasks[i].duration_hours
        THEN [kind |-> "pas assez", a |-> total_free, b |-> tasks[i].duration_hours]
        ELSE [kind |-> "surcharge", a |-> 0, b |-> 0]

\* mutant: a remainder below the minimum block counts as fully placed
VerdictBelowMinBlock(duration, blocks) ==
    IF remaining_hours(duration, blocks) < MIN_BLOCK_HOURS THEN "scheduled"
    ELSE IF scheduled_hours(blocks) > 0 THEN "partial"
    ELSE "impossible"

\* mutant: the "some hours placed" branch is tested before the "nothing left" one
VerdictPartialFirst(duration, blocks) ==
    IF scheduled_hours(blocks) > 0 THEN "partial"
    ELSE IF remaining_hours(duration, blocks) < EPSILON THEN "scheduled"
    ELSE "impossible"

\* the final verdict on a regular task (lines 231-255)
Verdict(duration, blocks) ==
    IF remaining_hours(duration, blocks) < EPSILON THEN "scheduled"
    ELSE IF scheduled_hours(blocks) > 0 THEN "partial"
    ELSE "impossible"

\* mutant: the blocks of the task do not reach the agenda
NewBlocksNone(i, r) == << >>

\* the blocks the greedy loop appended to task.scheduled_blocks in this call
NewBlocks(i, r) == SubSeq(r.blocks, Len(scheduled_blocks[i]) + 1, Len(r.blocks))

\* the placement of one regular task: everything but the verdict
Place(i, r) ==
    /\ calendar' = [d \in Dates |-> calendar[d] \o ItemsOn(i, d, NewBlocks(i, r))]
    /\ scheduled_blocks' = [scheduled_blocks EXCEPT ![i] = r.blocks]
    /\ free_slots' = r.free
    /\ pos' = pos + 1
    /\ UNCHANGED <<inputs, session, planner, pc, pinned_occupied>>

\* task.scheduled_blocks after the greedy loop (the loop reads and appends to
\* the task's own list) and the free slots the loop leaves
Greedy(i) == DayLoop(i, 0, scheduled_blocks[i], free_slots, calendar)

GreedyScheduled ==
    /\ pc = "greedy"
    /\ pos <= Len(_sort_tasks)
    /\ LET i == _sort_tasks[pos]
           r == Greedy(i)
       IN  /\ Verdict(tasks[i].duration_hours, r.blocks) = "scheduled"
           /\ Place(i, r)
           /\ is_scheduled' = [is_scheduled EXCEPT ![i] = TRUE]
           /\ is_impossible' = [is_impossible EXCEPT ![i] = FALSE]
           /\ scheduled_tasks' = Append(scheduled_tasks, i)
           /\ messages' = messages \o BlockMessages(i, NewBlocks(i, r))
           /\ UNCHANGED <<impossible_reason, impossible_tasks>>
           /\ CallerSees

GreedyPartial ==
    /\ pc = "greedy"
    /\ pos <= Len(_sort_tasks)
    /\ LET i == _sort_tasks[pos]
           r == Greedy(i)
           reason == [kind |-> "seulement", a |-> scheduled_hours(r.blocks),
                      b |-> tasks[i].duration_hours]
       IN  /\ Verdict(tasks[i].duration_hours, r.blocks) = "partial"
           /\ Place(i, r)
           /\ is_scheduled' = [is_scheduled EXCEPT ![i] = FALSE]
           /\ is_impossible' = [is_impossible EXCEPT ![i] = TRUE]
           /\ impossible_reason' = [impossible_reason EXCEPT ![i] = reason]
           /\ impossible_tasks' = Append(impossible_tasks, i)
           /\ messages' = (messages \o BlockMessages(i, NewBlocks(i, r)))
                          \o <<Message("partielle", i, NoBlock, reason)>>
           /\ UNCHANGED scheduled_tasks
           /\ CallerSees

GreedyImpossible ==
    /\ pc = "greedy"
    /\ pos <= Len(_sort_tasks)
    /\ LET i == _sort_tasks[pos]
           r == Greedy(i)
           reason == _explain_impossible(i, r.free)
       IN  /\ Verdict(tasks[i].duration_hours, r.blocks) = "impossible"
           /\ Place(i, r)
           /\ is_scheduled' = [is_scheduled EXCEPT ![i] = FALSE]
           /\ is_impossible' = [is_impossible EXCEPT ![i] = TRUE]
           /\ impossible_reason' = [impossible_reason EXCEPT ![i] = reason]
           /\ impossible_tasks' = Append(impossible_tasks, i)
           /\ messages' = (messages \o BlockMessages(i, NewBlocks(i, r)))
                          \o <<Message("non planifiable", i, NoBlock, reason)>>
           /\ UNCHANGED scheduled_tasks
           /\ CallerSees

\* ------------------------------------ 4. the occupied slots, 5. the sort
OccupiedItem(slot) ==
    [type |-> "occupied", task_id |-> 0, slot_type |-> slot.slot_type,
     start_time |-> slot.start_time, end_time |-> slot.end_time, duration_hours |-> 0,
     priority |-> "", reason |-> [fixed |-> FALSE, urgency |-> ""]]

RECURSIVE OccupiedOn(_, _)
OccupiedOn(d, slots) ==
    IF slots = << >> THEN << >>
    ELSE (IF Head(slots).date = d THEN <<OccupiedItem(Head(slots))>> ELSE << >>)
         \o OccupiedOn(d, Tail(slots))

AddOccupied ==
    /\ pc = "greedy"
    /\ pos > Len(_sort_tasks)
    /\ calendar' = [d \in Dates |-> calendar[d] \o OccupiedOn(d, occupied_slots)]
    /\ pc' = "sort"
    /\ UNCHANGED <<inputs, session, planner, caller_tasks, pos, pinned_occupied, free_slots,
                   scheduled_blocks, is_scheduled, is_impossible, impossible_reason,
                   scheduled_tasks, impossible_tasks, messages>>

\* list.sort(key=lambda x: x["start_time"]): stable insertion by start_time
RECURSIVE InsertByStart(_, _)
InsertByStart(x, sorted) ==
    IF sorted = << >> THEN <<x>>
    ELSE IF x.start_time < Head(sorted).start_time THEN <<x>> \o sorted
    ELSE <<Head(sorted)>> \o InsertByStart(x, Tail(sorted))

RECURSIVE SortByStart(_)
SortByStart(items) ==
    IF items = << >> THEN << >>
    ELSE InsertByStart(items[Len(items)], SortByStart(SubSeq(items, 1, Len(items) - 1)))

SortCalendar ==
    /\ pc = "sort"
    /\ calendar' = [d \in Dates |-> SortByStart(calendar[d])]
    /\ pc' = "done"
    /\ UNCHANGED <<inputs, session, planner, caller_tasks, pos, pinned_occupied, free_slots,
                   scheduled_blocks, is_scheduled, is_impossible, impossible_reason,
                   scheduled_tasks, impossible_tasks, messages>>

Next ==
    \/ PinnedAccept
    \/ PinnedReject
    \/ ComputeFreeSlots
    \/ GreedyScheduled
    \/ GreedyPartial
    \/ GreedyImpossible
    \/ AddOccupied
    \/ SortCalendar

Spec == Init /\ [][Next]_vars

\* ------------------------------------ the scenarios of a 08:00-22:00 day
\* 2 h and 10 h due today; 2 h pinned today at 09:00, 1 h pinned at 10:00
ScenarioTasks ==
    { Task(600, 0, "Normale", NoPin),
      Task(3000, 0, "Normale", NoPin),
      Task(600, 0, "Normale", [date |-> 0, time |-> 540]),
      Task(300, 0, "Haute", [date |-> 0, time |-> 600]) }

\* 08:00-10:00 and 14:00-22:00 today
ScenarioSlotCatalogue ==
    << Slot(0, 480, 600, "Cours"),
       Slot(0, 840, 1320, "Google Calendar") >>

ScenarioSlotInputs ==
    { LET Chosen(o) == \E k \in S : o = ScenarioSlotCatalogue[k]
      IN  SelectSeq(ScenarioSlotCatalogue, Chosen) :
          S \in SUBSET (1 .. Len(ScenarioSlotCatalogue)) }

\* 1 h, 2 h or 8 h a day, 08:00-22:00
ScenarioConstraints ==
    [max_hours_per_day : {300, 600, 2400}, start_hour : {8}, end_hour : {22},
     no_sunday : BOOLEAN, lunch_break : BOOLEAN]

InitScenario ==
    Start(SeqsUpTo(ScenarioTasks, MaxTasks), ScenarioSlotInputs, ScenarioConstraints, {5, 6})

SpecScenario == InitScenario /\ [][Next]_vars

\* ------------------------------- a second call on the same TaskScheduler
\* generate_schedule called again on an instance that has returned: the
\* result and the locals are new (lines 124, 131, 155), self.tasks are the
\* objects the previous call wrote to
GenerateAgain ==
    /\ pc = "done"
    /\ calls < MaxCalls
    /\ Reenter
    /\ UNCHANGED <<inputs, planner, caller_tasks, session_slots, exported, scheduled_blocks,
                   is_scheduled, is_impossible, impossible_reason>>

\* one day, a 2 h cap, with and without the lunch break
AgainConstraints ==
    [max_hours_per_day : {600}, start_hour : {10}, end_hour : {14},
     no_sunday : {FALSE}, lunch_break : BOOLEAN]

InitAgain == Start(SeqsUpTo(TaskInputs, MaxTasks), SlotInputs, AgainConstraints, {5})

NextAgain ==
    \/ Next
    \/ GenerateAgain

SpecAgain == InitAgain /\ [][NextAgain]_vars

\* ------------------------------------- the session of src/app.py (tab 3)
\* mutant: the exported blocks are not injected into the new run
ExportedAsOccupiedNone == << >>

\* exported_as_occupied: the exported blocks as OccupiedSlots of category
\* "Exporte"
ExportedAsOccupied ==
    [k \in DOMAIN exported |->
        Slot(exported[k].date, exported[k].start_time, exported[k].end_time, "Exporte")]

\* the "generate" button: a new TaskScheduler on the session's tasks, the
\* session's occupied slots followed by the exported blocks, and the
\* constraints c of the sidebar; then generate_schedule
Generate(c) ==
    /\ pc = "done"
    /\ calls < MaxCalls
    /\ LET new == NewScheduler(caller_tasks, session_slots \o ExportedAsOccupied, c)
       IN  /\ tasks' = new.tasks
           /\ scheduled_blocks' = new.scheduled_blocks
           /\ is_scheduled' = new.is_scheduled
           /\ is_impossible' = new.is_impossible
           /\ impossible_reason' = new.impossible_reason
           /\ occupied_slots' = new.occupied_slots
           /\ constraints' = new.constraints
    /\ Reenter
    /\ UNCHANGED <<today_weekday, planner, caller_tasks, session_slots, exported>>

\* ------------------------------------------- the export tab (tab 4)
\* the blocks of the tasks of result.scheduled_tasks, in the order of the tab
RECURSIVE BlocksOf(_)
BlocksOf(ids) ==
    IF ids = << >> THEN << >>
    ELSE [k \in DOMAIN scheduled_blocks[Head(ids)] |->
             [task |-> Head(ids),
              date |-> scheduled_blocks[Head(ids)][k].date,
              start_time |-> scheduled_blocks[Head(ids)][k].start_time,
              end_time |-> scheduled_blocks[Head(ids)][k].end_time]]
         \o BlocksOf(Tail(ids))

\* block_key in st.session_state.export_done: task id, date and start time
InExportDone(b) ==
    \E k \in DOMAIN exported :
        /\ exported[k].task = b.task
        /\ exported[k].date = b.date
        /\ exported[k].start_time = b.start_time

\* the blocks the tab offers with a checkbox
Exportable ==
    LET Offered(b) == ~InExportDone(b)
    IN  SelectSeq(BlocksOf(scheduled_tasks), Offered)

\* the "export" button: of the offered blocks, those that are ticked and whose
\* event is created are appended to exported_blocks_detail, in order
Export ==
    /\ pc = "done"
    /\ scheduled_tasks # << >>
    /\ \E S \in SUBSET (1 .. Len(Exportable)) :
           /\ S # {}
           /\ Len(exported) + Cardinality(S) <= MaxExported
           /\ exported' = exported \o
                  [n \in 1 .. Cardinality(S) |->
                      Exportable[CHOOSE k \in S :
                                    Cardinality({j \in S : j < k}) = n - 1]]
    /\ UNCHANGED <<inputs, planner, caller_tasks, session_slots, previous, calls, pc, pos,
                   pinned_occupied, free_slots, calendar, scheduled_blocks,
                   is_scheduled, is_impossible, impossible_reason, scheduled_tasks,
                   impossible_tasks, messages>>

\* the "generate" button pressed once something has been exported
GenerateAfterExport ==
    /\ exported # << >>
    /\ Generate(constraints)

\* 1 h + 2 ticks due today, 1.25 h due tomorrow, 1.5 h due after the horizon;
\* 1 h pinned today at 10:30 and 1.5 h pinned today at 11:00
ExportTasks ==
    { Task(302, 0, "Haute", NoPin),
      Task(375, 1, "Haute", NoPin),
      Task(450, HorizonDays + 1, "Basse", NoPin),
      Task(302, 0, "Haute", [date |-> 0, time |-> 630]),
      Task(450, 0, "Normale", [date |-> 0, time |-> 660]) }

\* no occupied slot, or 10:00-11:40 today and 10:30-12:00 tomorrow
ExportSlotInputs == { << >>, <<SlotCatalogue[1], SlotCatalogue[4]>> }

InitExport == Start(SeqsUpTo(ExportTasks, MaxTasks), ExportSlotInputs, AgainConstraints, {5})

NextExport ==
    \/ Next
    \/ Export
    \/ GenerateAfterExport

SpecExport == InitExport /\ [][NextExport]_vars

\* ----------------------------- two runs that differ in max_hours_per_day
\* 0.5 h, 0.75 h, 1 h and 2 h a day
CapInputs == {150, 225, 300, 600}

\* the user lowers the "max hours a day" slider and generates again
GenerateLowerCap ==
    \E cap \in CapInputs :
        /\ cap < constraints.max_hours_per_day
        /\ Generate([constraints EXCEPT !.max_hours_per_day = cap])

\* regular tasks of 0.5 h, 1 h, 1 h, 1.5 h, 2 h and 1.25 h; 1 h pinned today
\* at 10:30
CapTasks ==
    { Task(150, 0, "Haute", NoPin),
      Task(300, 0, "Basse", NoPin),
      Task(300, 1, "Normale", NoPin),
      Task(450, 1, "Basse", NoPin),
      Task(600, 1, "Normale", NoPin),
      Task(375, 1, "Haute", NoPin),
      Task(300, 0, "Normale", [date |-> 0, time |-> 630]) }

\* 11:30-14:00 and 10:45-14:00 today, 11:30-13:00 tomorrow
CapSlotCatalogue ==
    << Slot(0, 690, 840, "Cours"),
       Slot(0, 645, 840, "Google Calendar"),
       Slot(1, 690, 780, "Autre") >>

CapSlotInputs ==
    { LET Chosen(o) == \E k \in S : o = CapSlotCatalogue[k]
      IN  SelectSeq(CapSlotCatalogue, Chosen) : S \in SUBSET (1 .. Len(CapSlotCatalogue)) }

CapConstraints ==
    [max_hours_per_day : CapInputs, start_hour : {10}, end_hour : {14},
     no_sunday : {FALSE}, lunch_break : BOOLEAN]

InitCap == Start(SeqsUpTo(CapTasks, MaxTasks), CapSlotInputs, CapConstraints, {5})

NextCap ==
    \/ Next
    \/ GenerateLowerCap

SpecCap == InitCap /\ [][NextCap]_vars

\* ------------------------------------------ a morning of pinned tasks
\* 1 h pinned today at 10:30, at 11:10 and at 13:00; 2 h due today
PinnedScenarioTasks ==
    { Task(300, 0, "Normale", [date |-> 0, time |-> 630]),
      Task(300, 0, "Haute", [date |-> 0, time |-> 670]),
      Task(300, 0, "Basse", [date |-> 0, time |-> 780]),
      Task(600, 0, "Normale", NoPin) }

\* 10:00-10:40 and 12:10-12:40 today
PinnedScenarioSlotCatalogue ==
    << Slot(0, 600, 640, "Cours"),
       Slot(0, 730, 760, "Autre") >>

PinnedScenarioSlotInputs ==
    { LET Chosen(o) == \E k \in S : o = PinnedScenarioSlotCatalogue[k]
      IN  SelectSeq(PinnedScenarioSlotCatalogue, Chosen) :
          S \in SUBSET (1 .. Len(PinnedScenarioSlotCatalogue)) }

InitPinned ==
    Start(SeqsUpTo(PinnedScenarioTasks, MaxTasks + 1), PinnedScenarioSlotInputs,
          AgainConstraints, {5})

SpecPinned == InitPinned /\ [][Next]_vars

\* ------------------------------------- durations around the two thresholds
\* 0.01 h (the epsilon itself), 0.25 h, 1.01 h, 1.25 h and 1.5 h, not pinned;
\* 0.5 h pinned today at 09:30 and at 10:30
ShortTasks ==
    { Task(EPSILON, 0, "Normale", NoPin),
      Task(75, 1, "Basse", NoPin),
      Task(2 * MIN_BLOCK_HOURS + EPSILON, 1, "Haute", NoPin),
      Task(375, 1, "Haute", NoPin),
      Task(450, HorizonDays + 1, "Basse", NoPin),
      Task(MIN_BLOCK_HOURS, 0, "Normale", [date |-> 0, time |-> 570]),
      Task(MIN_BLOCK_HOURS, 0, "Normale", [date |-> 0, time |-> 630]) }

InitShort == Start(SeqsUpTo(ShortTasks, MaxTasks), SlotInputs, ConstraintInputs, {5})

SpecShort == InitShort /\ [][Next]_vars


\* ------------------------- the earlier engine: TaskPlanner of src/main.py
\* A datetime is a number of minutes since today's midnight; a duration in
\* hours is a number of minutes.
MAX_DAYS_TO_PLAN == 7
PLANNER_DAY_START == 540
PLANNER_SLOT_MINUTES == 30
DAY_MINUTES == 1440

PRIORITY_ORDER == [Haute |-> 3, Normale |-> 2, Basse |-> 1, High |-> 3, Normal |-> 2, Low |-> 1]

\* Task(title, duration, deadline, priority) of src/main.py
PlannerTask(duration, deadline, priority) ==
    [duration |-> duration, deadline |-> deadline, priority |-> priority]

\* 1 h due today 10:00 (twice, two priorities), 30 min due tomorrow 10:00,
\* 1.5 h due tomorrow noon, 2 h due today 09:30
PlannerTaskInputs ==
    { PlannerTask(60, 600, "Haute"),
      PlannerTask(60, 600, "Normale"),
      PlannerTask(30, DAY_MINUTES + 600, "Basse"),
      PlannerTask(90, DAY_MINUTES + 720, "High"),
      PlannerTask(120, 570, "Low") }

\* BusySlot(start, end, slot_type): 09:00-09:30 today, 09:15-10:00 tomorrow
BusySlot(start, end) == [start |-> start, end |-> end]

BusySlotCatalogue ==
    << BusySlot(540, 570),
       BusySlot(DAY_MINUTES + 555, DAY_MINUTES + 600) >>

BusySlotInputs ==
    { LET Chosen(o) == \E k \in S : o = BusySlotCatalogue[k]
      IN  SelectSeq(BusySlotCatalogue, Chosen) : S \in SUBSET (1 .. Len(BusySlotCatalogue)) }

\* set_constraints: the day ends at 12:00 or at 14:00
PlannerConstraintInputs == [latest_hour : {12, 14}, no_sunday : BOOLEAN]

PlannerIds == 1 .. Len(planner_tasks)

\* TaskPlanner._sort_tasks: (deadline, -priority_order, duration), stable
TaskPlanner_sort_tasks ==
    StableSort([i \in PlannerIds |-> i],
               [i \in PlannerIds |->
                  <<planner_tasks[i].deadline, 0 - PRIORITY_ORDER[planner_tasks[i].priority],
                    planner_tasks[i].duration>>])

\* _split_time_range: 30-minute slots from start, the last one cut at end
_split_time_range(start, end) ==
    IF start >= end THEN << >>
    ELSE [k \in 1 .. ((end - start + PLANNER_SLOT_MINUTES - 1) \div PLANNER_SLOT_MINUTES) |->
            <<start + PLANNER_SLOT_MINUTES * (k - 1),
              Min2(start + PLANNER_SLOT_MINUTES * k, end)>>]

\* the slot overlaps none of the busy slots
IsFree(slot) ==
    \A k \in DOMAIN busy_slots :
        ~(slot[1] < busy_slots[k].end /\ slot[2] > busy_slots[k].start)

\* the free slots of one day of _generate_free_slots: 09:00-12:00 and
\* 13:00-latest_hour in 30-minute slots (already in order, so the sort
\* changes nothing), without those that overlap a busy slot
PlannerDaySlots(day) ==
    LET base == day * DAY_MINUTES
        morning == _split_time_range(base + PLANNER_DAY_START, base + LUNCH_START)
        afternoon == _split_time_range(base + LUNCH_END,
                                       base + HourTime(planner_constraints.latest_hour))
    IN  SelectSeq(morning \o afternoon, IsFree)

\* _generate_free_slots: the days 0 .. MAX_DAYS_TO_PLAN - 1 from today on,
\* Sundays skipped when no_sunday is set
RECURSIVE GenerateFrom(_)
GenerateFrom(day) ==
    IF day >= MAX_DAYS_TO_PLAN THEN << >>
    ELSE (IF planner_constraints.no_sunday /\ (today_weekday + day) % 7 = SUNDAY
          THEN << >>
          ELSE PlannerDaySlots(day))
         \o GenerateFrom(day + 1)

_generate_free_slots == GenerateFrom(0)

\* the loop of plan_tasks over the free slots for one task (lines 154-167)
RECURSIVE PlanLoop(_, _, _, _)
PlanLoop(slots, remaining_duration, deadline, task_slots) ==
    IF slots = << >> \/ remaining_duration <= 0
    THEN [remaining_duration |-> remaining_duration, task_slots |-> task_slots]
    ELSE LET slot_start == Head(slots)[1]
             slot_end == Head(slots)[2]
             slot_duration == slot_end - slot_start
             use_duration == Min2(remaining_duration, slot_duration)
         IN  IF slot_end <= deadline /\ slot_duration > 0
             THEN PlanLoop(Tail(slots), remaining_duration - use_duration, deadline,
                           Append(task_slots, <<slot_start, slot_start + use_duration>>))
             ELSE PlanLoop(Tail(slots), remaining_duration, deadline, task_slots)

\* the free slots plan_tasks goes on with after a task has used some of them
\* (lines 169-170 and 179-180 are comments: nothing is removed)
SlotsAfterUse(slots, task_slots) == slots

\* a TaskPlanner with tasks and busy slots added; there is no TaskScheduler
NoScheduler ==
    /\ caller_tasks = << >>
    /\ session_slots = << >>
    /\ Construct(caller_tasks, session_slots, NoRun.constraints)
    /\ pc = "none"
    /\ pos = 0
    /\ pinned_occupied = << >>
    /\ free_slots = << >>
    /\ calendar = << >>
    /\ scheduled_tasks = << >>
    /\ impossible_tasks = << >>
    /\ messages = << >>
    /\ exported = << >>
    /\ previous = NoRun
    /\ calls = 0

InitPlanner ==
    /\ NoScheduler
    /\ today_weekday \in {5, 6}
    /\ planner_tasks \in SeqsUpTo(PlannerTaskInputs, MaxTasks)
    /\ busy_slots \in BusySlotInputs
    /\ planner_constraints \in PlannerConstraintInputs
    /\ planner_pc = "new"
    /\ planner_pos = 0
    /\ planner_free_slots = << >>
    /\ scheduled_slots = [i \in PlannerIds |-> << >>]
    /\ is_planned = [i \in PlannerIds |-> FALSE]
    /\ planned_tasks = << >>
    /\ unplanned_tasks = << >>

scheduler_vars ==
    <<tasks, occupied_slots, constraints, today_weekday, pc, pos, pinned_occupied,
      free_slots, calendar, scheduled_blocks, is_scheduled, is_impossible,
      impossible_reason, scheduled_tasks, impossible_tasks, messages, caller_tasks,
      session_slots, exported, previous, calls>>

\* plan_tasks, lines 141-147: the free slots are generated
PlanStart ==
    /\ planner_pc = "new"
    /\ planner_free_slots' = _generate_free_slots
    /\ planner_pc' = "loop"
    /\ planner_pos' = 1
    /\ UNCHANGED <<scheduler_vars, planner_tasks, busy_slots, planner_constraints,
                   scheduled_slots, is_planned, planned_tasks, unplanned_tasks>>

\* one task of the loop, fully planned (lines 172-177)
PlanTaskPlanned ==
    /\ planner_pc = "loop"
    /\ planner_pos <= Len(TaskPlanner_sort_tasks)
    /\ LET i == TaskPlanner_sort_tasks[planner_pos]
           r == PlanLoop(planner_free_slots, planner_tasks[i].duration,
                         planner_tasks[i].deadline, << >>)
       IN  /\ r.remaining_duration <= 0
           /\ scheduled_slots' = [scheduled_slots EXCEPT ![i] = r.task_slots]
           /\ is_planned' = [is_planned EXCEPT ![i] = TRUE]
           /\ planned_tasks' = Append(planned_tasks, i)
           /\ planner_free_slots' = SlotsAfterUse(planner_free_slots, r.task_slots)
    /\ planner_pos' = planner_pos + 1
    /\ UNCHANGED <<scheduler_vars, planner_tasks, busy_slots, planner_constraints,
                   planner_pc, unplanned_tasks>>

\* one task of the loop, not fully planned (lines 181-185)
PlanTaskUnplanned ==
    /\ planner_pc = "loop"
    /\ planner_pos <= Len(TaskPlanner_sort_tasks)
    /\ LET i == TaskPlanner_sort_tasks[planner_pos]
           r == PlanLoop(planner_free_slots, planner_tasks[i].duration,
                         planner_tasks[i].deadline, << >>)
       IN  /\ r.remaining_duration > 0
           /\ is_planned' = [is_planned EXCEPT ![i] = FALSE]
           /\ unplanned_tasks' = Append(unplanned_tasks, i)
    /\ planner_pos' = planner_pos + 1
    /\ UNCHANGED <<scheduler_vars, planner_tasks, busy_slots, planner_constraints,
                   planner_pc, planner_free_slots, scheduled_slots, planned_tasks>>

\* return planned_tasks, unplanned_tasks
PlanReturn ==
    /\ planner_pc = "loop"
    /\ planner_pos > Len(TaskPlanner_sort_tasks)
    /\ planner_pc' = "done"
    /\ UNCHANGED <<scheduler_vars, planner_tasks, busy_slots, planner_constraints,
                   planner_pos, planner_free_slots, scheduled_slots, is_planned,
                   planned_tasks, unplanned_tasks>>

NextPlanner ==
    \/ PlanStart
    \/ PlanTaskPlanned
    \/ PlanTaskUnplanned
    \/ PlanReturn

SpecPlanner == InitPlanner /\ [][NextPlanner]_vars

\* ====================================================== the properties
Done == pc = "done"

\* two items (agenda items or occupied slots) share some time
Overlap(x, y) == x.start_time < y.end_time /\ y.start_time < x.end_time

\* the positions of the "task" / "occupied" items of a date's agenda
TaskItemsOn(d) == { k \in DOMAIN calendar[d] : calendar[d][k].type = "task" }
OccupiedItemsOn(d) == { k \in DOMAIN calendar[d] : calendar[d][k].type = "occupied" }
SlotsOn(d) == { m \in DOMAIN occupied_slots : occupied_slots[m].date = d }

IsSunday(d) == (today_weekday + d + 7) % 7 = SUNDAY

Abs(x) == IF x < 0 THEN 0 - x ELSE x

Count(seq, x) == Cardinality({ k \in DOMAIN seq : seq[k] = x })

\* C1 as stated: in the result, no two agenda items of the same date and the
\* same type (two "task" items, or two "occupied" items) overlap in time.
C1_SameTypeItemsDisjoint ==
    Done => \A d \in Dates : \A j, k \in DOMAIN calendar[d] :
                (j < k /\ calendar[d][j].type = calendar[d][k].type)
                    => ~Overlap(calendar[d][j], calendar[d][k])

\* C1 amended: no two "task" items of the same date ever overlap in time; the
\* "occupied" items of the result are the caller's slots as given, so two of
\* them overlap on a date exactly when two of the caller's slots of that date do.
C1_TaskItemsDisjoint ==
    /\ \A d \in Dates : \A j, k \in TaskItemsOn(d) :
           j < k => ~Overlap(calendar[d][j], calendar[d][k])
    /\ Done => \A d \in Dates :
           (\E j, k \in OccupiedItemsOn(d) : j < k /\ Overlap(calendar[d][j], calendar[d][k]))
           <=> (\E m, n \in SlotsOn(d) :
                    m < n /\ Overlap(occupied_slots[m], occupied_slots[n]))

\* a result where a greedy block ends exactly where an accepted pinned block
\* of the same date starts
C1_Witness ==
    /\ Done
    /\ \E d \in Dates : \E j, k \in TaskItemsOn(d) :
           /\ calendar[d][k].reason.fixed
           /\ ~calendar[d][j].reason.fixed
           /\ calendar[d][j].end_time = calendar[d][k].start_time

\* C2: no "task" agenda item (pinned or greedy) overlaps in time an occupied
\* slot of the same date, whatever the slot's category.
C2_TasksAvoidOccupied ==
    \A d \in Dates : \A k \in TaskItemsOn(d) : \A m \in SlotsOn(d) :
        ~Overlap(calendar[d][k], occupied_slots[m])

\* a result where a task block starts exactly when an occupied slot of its
\* date ends, and a task block ends exactly when an exported slot starts
C2_Witness ==
    /\ Done
    /\ \E d \in Dates : \E k \in TaskItemsOn(d) : \E m \in SlotsOn(d) :
           calendar[d][k].start_time = occupied_slots[m].end_time
    /\ \E d \in Dates : \E k \in TaskItemsOn(d) : \E m \in SlotsOn(d) :
           /\ occupied_slots[m].slot_type = "Exporte"
           /\ calendar[d][k].end_time = occupied_slots[m].start_time

\* C3 as stated: on every date of the result the "task" items (pinned and
\* greedy together) total at most max_hours_per_day.
C3_DailyCap ==
    Done => \A d \in Dates : TaskHours(calendar[d]) <= constraints.max_hours_per_day

\* C4: a pinned task that has been examined has either exactly one block, at
\* the pinned date and time and of the requested duration (and is scheduled),
\* or no block at all (and is impossible); before it is examined it has none.
C4_PinnedAllOrNothing ==
    \A i \in TaskIds : tasks[i].pin_datetime # NoPin =>
        \/ /\ Len(scheduled_blocks[i]) = 1
           /\ scheduled_blocks[i][1].date = tasks[i].pin_datetime.date
           /\ scheduled_blocks[i][1].start_time = tasks[i].pin_datetime.time
           /\ scheduled_blocks[i][1].duration_hours = tasks[i].duration_hours
           /\ is_scheduled[i] /\ ~is_impossible[i]
           /\ Count(scheduled_tasks, i) = 1
        \/ /\ scheduled_blocks[i] = << >>
           /\ \A d \in Dates : \A k \in TaskItemsOn(d) : calendar[d][k].task_id # i
           /\ ~is_scheduled[i]
           /\ is_impossible[i] <=> Count(impossible_tasks, i) = 1
           /\ Done => is_impossible[i]

\* a result with an accepted pinned task longer than the daily cap and a
\* rejected pinned task
C4_Witness ==
    /\ Done
    /\ \E i, j \in TaskIds :
           /\ tasks[i].pin_datetime # NoPin /\ is_scheduled[i]
           /\ tasks[i].duration_hours > constraints.max_hours_per_day
           /\ tasks[j].pin_datetime # NoPin /\ is_impossible[j]

\* C5: every task of scheduled_tasks has blocks whose durations sum to its
\* requested duration within 0.01 h.
C5_ScheduledSumWithinTolerance ==
    \A k \in DOMAIN scheduled_tasks :
        Abs(tasks[scheduled_tasks[k]].duration_hours
            - scheduled_hours(scheduled_blocks[scheduled_tasks[k]])) <= EPSILON

\* a result with a scheduled task whose blocks sum to less than its duration
\* (inside the tolerance) and a scheduled task placed in several blocks
C5_Witness ==
    /\ Done
    /\ \E k \in DOMAIN scheduled_tasks :
           scheduled_hours(scheduled_blocks[scheduled_tasks[k]])
               < tasks[scheduled_tasks[k]].duration_hours
    /\ \E k \in DOMAIN scheduled_tasks : Len(scheduled_blocks[scheduled_tasks[k]]) > 1

\* C6: every task of impossible_tasks has an allocated duration that is 0 or
\* strictly less than its requested duration.
C6_ImpossibleSumBelow ==
    \A k \in DOMAIN impossible_tasks :
        \/ scheduled_hours(scheduled_blocks[impossible_tasks[k]]) = 0
        \/ scheduled_hours(scheduled_blocks[impossible_tasks[k]])
               < tasks[impossible_tasks[k]].duration_hours

\* a result with an impossible task that holds blocks and one that holds none
C6_Witness ==
    /\ Done
    /\ \E k \in DOMAIN impossible_tasks : scheduled_blocks[impossible_tasks[k]] # << >>
    /\ \E k \in DOMAIN impossible_tasks : scheduled_blocks[impossible_tasks[k]] = << >>

\* C7: no task is ever marked both scheduled and impossible or listed twice;
\* a listed task carries the flags of its list; and in the result every task
\* is in exactly one of the two lists, whatever happened to the tasks before it.
C7_ClassifiedExactlyOnce ==
    /\ \A i \in TaskIds :
           /\ ~(is_scheduled[i] /\ is_impossible[i])
           /\ Count(scheduled_tasks, i) + Count(impossible_tasks, i) <= 1
           /\ is_scheduled[i] <=> Count(scheduled_tasks, i) = 1
           /\ is_impossible[i] <=> Count(impossible_tasks, i) = 1
           /\ Done => Count(scheduled_tasks, i) + Count(impossible_tasks, i) = 1
    /\ \A k \in DOMAIN scheduled_tasks : scheduled_tasks[k] \in TaskIds
    /\ \A k \in DOMAIN impossible_tasks : impossible_tasks[k] \in TaskIds

\* a result where the first regular task taken up failed and a later one was
\* scheduled, and likewise a rejected pinned task came before an accepted one
C7_Witness ==
    /\ Done
    /\ \/ /\ Len(_sort_tasks) = 2
          /\ is_impossible[_sort_tasks[1]]
          /\ is_scheduled[_sort_tasks[2]]
       \/ /\ Len(PinnedOrder) = 2
          /\ is_impossible[PinnedOrder[1]]
          /\ is_scheduled[PinnedOrder[2]]

\* C8: every "task" agenda item starts at or after start_hour:00 and ends at
\* or before end_hour:00.
C8_TasksInsideWindow ==
    \A d \in Dates : \A k \in TaskItemsOn(d) :
        /\ calendar[d][k].start_time >= constraints.start_hour * 60
        /\ calendar[d][k].end_time <= constraints.end_hour * 60

\* a result with a pinned block, a task block that starts when the window
\* opens and a task block that ends when the window closes
C8_Witness ==
    /\ Done
    /\ \E d \in Dates : \E k \in TaskItemsOn(d) : calendar[d][k].reason.fixed
    /\ \E d \in Dates : \E k \in TaskItemsOn(d) :
           calendar[d][k].start_time = constraints.start_hour * 60
    /\ \E d \in Dates : \E k \in TaskItemsOn(d) :
           calendar[d][k].end_time = constraints.end_hour * 60

\* C9 as stated: when no_sunday is set, no "task" agenda item of the result
\* is dated on a Sunday.
C9_NoTaskOnSunday ==
    Done => (constraints.no_sunday =>
                \A d \in Dates : IsSunday(d) => TaskItemsOn(d) = {})

\* C10 as stated: when lunch_break is set, no "task" agenda item of the
\* result overlaps the lunch window 12:00-13:00.
C10_NoTaskInLunch ==
    Done => (constraints.lunch_break =>
                \A d \in Dates : \A k \in TaskItemsOn(d) :
                    ~(calendar[d][k].start_time < LUNCH_END
                      /\ LUNCH_START < calendar[d][k].end_time))


\* the position of task i in the order the pinned pass examines the tasks
PinnedPos(i) == CHOOSE k \in DOMAIN PinnedOrder : PinnedOrder[k] = i

\* two pinned tasks whose windows overlap on the same date
PinnedOverlap(i, j) ==
    /\ IsPinned(i) /\ IsPinned(j) /\ i # j
    /\ PinDate(i) = PinDate(j)
    /\ PinStart(i) < PinEnd(j) /\ PinStart(j) < PinEnd(i)

\* the pinned task passes the window check and the occupied-slot check
PassesWindowAndOccupied(i) ==
    /\ PinStart(i) >= constraints.start_hour * 60
    /\ PinEnd(i) <= constraints.end_hour * 60
    /\ \A m \in SlotsOn(PinDate(i)) :
           \/ PinEnd(i) <= occupied_slots[m].start_time
           \/ PinStart(i) >= occupied_slots[m].end_time

\* C15 as stated: of two pinned tasks with overlapping windows on a date at
\* most one is accepted, and if the one examined first (ascending pinned
\* start, input order on ties) passes the window and occupied-slot checks it
\* is accepted and the other is impossible with the pinned-conflict reason
\* naming the accepted task's start-end window.
C15_EarlierWinsLaterNamesIt ==
    Done => \A i, j \in TaskIds :
        (PinnedOverlap(i, j) /\ PinnedPos(i) < PinnedPos(j)) =>
            /\ ~(is_scheduled[i] /\ is_scheduled[j])
            /\ PassesWindowAndOccupied(i) =>
                   /\ is_scheduled[i]
                   /\ is_impossible[j]
                   /\ impossible_reason[j] =
                          [kind |-> "conflit fixe", a |-> PinStart(i), b |-> PinEnd(i)]

\* no pinned task accepted before position n overlaps task i, other than task x
NoEarlierAccepted(i, n, x) ==
    \A k \in TaskIds :
        (IsPinned(k) /\ k # i /\ k # x /\ PinnedPos(k) < n /\ is_scheduled[k])
            => ~PinnedOverlap(k, i)

\* C15 amended: pinned tasks are examined in ascending pinned start (input
\* order on ties) and of two that overlap on a date at most one is accepted;
\* the one examined first is accepted, and the other impossible, when it
\* passes the window and occupied-slot checks and overlaps no pinned task
\* accepted before it; the other's reason names the accepted task's window
\* when the other itself passes the window and occupied-slot checks and
\* overlaps no pinned task accepted earlier still, and otherwise is the
\* reason of the first check it fails (window, then occupied slot).
C15_PinnedPairs ==
    /\ \A k \in DOMAIN PinnedOrder : k > 1 =>
           ~LexLess(<<PinDate(PinnedOrder[k]), PinStart(PinnedOrder[k]), PinnedOrder[k]>>,
                    <<PinDate(PinnedOrder[k - 1]), PinStart(PinnedOrder[k - 1]),
                      PinnedOrder[k - 1]>>)
    /\ Done => \A i, j \in TaskIds :
        (PinnedOverlap(i, j) /\ PinnedPos(i) < PinnedPos(j)) =>
            /\ ~(is_scheduled[i] /\ is_scheduled[j])
            /\ (PassesWindowAndOccupied(i) /\ NoEarlierAccepted(i, PinnedPos(i), i)) =>
                   /\ is_scheduled[i]
                   /\ is_impossible[j]
                   /\ ~PassesWindowAndOccupied(j) =>
                          impossible_reason[j].kind \in {"hors plage", "conflit occupe"}
                   /\ (PassesWindowAndOccupied(j) /\ NoEarlierAccepted(j, PinnedPos(i), i)) =>
                          impossible_reason[j] =
                             [kind |-> "conflit fixe", a |-> PinStart(i), b |-> PinEnd(i)]

\* a result where the first of two overlapping pinned tasks is accepted and
\* the second is rejected with a reason naming the first one's window
C15_Witness ==
    /\ Done
    /\ \E i, j \in TaskIds :
           /\ PinnedOverlap(i, j) /\ PinnedPos(i) < PinnedPos(j)
           /\ PinStart(i) < PinStart(j)
           /\ is_scheduled[i]
           /\ impossible_reason[j] =
                  [kind |-> "conflit fixe", a |-> PinStart(i), b |-> PinEnd(i)]

\* C16 as stated: a non-pinned task whose deadline is before today ends
\* impossible with no block, and its reason is the deadline-exceeded variant,
\* not the numeric "x h available, y h required" variant.
C16_PastDeadlineReason ==
    Done => \A i \in TaskIds :
        (IsRegular(i) /\ tasks[i].deadline < 0) =>
            /\ is_impossible[i]
            /\ scheduled_blocks[i] = << >>
            /\ impossible_reason[i].kind = "surcharge"

\* C19: every block of a non-pinned task is dated from today on, no later
\* than the task's deadline and no later than today + horizon_days.
C19_BlocksBetweenTodayAndDeadline ==
    \A i \in TaskIds : IsRegular(i) =>
        \A k \in DOMAIN scheduled_blocks[i] :
            /\ 0 <= scheduled_blocks[i][k].date
            /\ scheduled_blocks[i][k].date <= tasks[i].deadline
            /\ scheduled_blocks[i][k].date <= HorizonDays

\* a result where a task due today is left unfinished although tomorrow has a
\* free interval, and a task due after the horizon has a block on the last
\* day of the horizon and is left unfinished
C19_Witness ==
    /\ Done
    /\ \E i \in TaskIds :
           /\ IsRegular(i) /\ tasks[i].deadline = 0 /\ is_impossible[i]
           /\ scheduled_blocks[i] # << >>
           /\ free_slots[1] # << >>
    /\ \E i \in TaskIds :
           /\ IsRegular(i) /\ tasks[i].deadline > HorizonDays /\ is_impossible[i]
           /\ \E k \in DOMAIN scheduled_blocks[i] :
                  scheduled_blocks[i][k].date = HorizonDays

\* C14: a run never changes what the caller passed: no step changes a field
\* of a caller's Task object (scheduled_blocks, is_scheduled, is_impossible,
\* impossible_reason) or the caller's occupied list, and the scheduler's
\* tasks are objects of its own that carry the caller's ids and fields.
C14_CallerInputsUnchanged ==
    /\ [](\A i \in TaskIds : OwnObject(i) /\ tasks[i] = caller_tasks[i].task)
    /\ [][/\ caller_tasks' = caller_tasks
          /\ session_slots' = session_slots
          /\ occupied_slots' = occupied_slots]_vars

\* a result where the scheduler's copies were written: one task holds blocks
\* and is scheduled, another is impossible with a reason
C14_Witness ==
    /\ Done
    /\ \E i, j \in TaskIds :
           /\ scheduled_blocks[i] # << >> /\ is_scheduled[i]
           /\ is_impossible[j] /\ impossible_reason[j] # NoReason
           /\ caller_tasks[i].scheduled_blocks = << >>
           /\ caller_tasks[j].impossible_reason = NoReason

\* C12 as stated: a second call of generate_schedule on the same instance
\* returns a result with the content of the first call's, and after any
\* number of calls no task holds more allocated hours than it asked for.
C12_SecondCallSameResult ==
    /\ \A i \in TaskIds :
           scheduled_hours(scheduled_blocks[i]) <= tasks[i].duration_hours
    /\ (Done /\ calls > 1) => Result = previous.result

\* every duration, the daily cap of both runs and every time boundary (slot
\* start and end, pinned start) is a whole number of minimum blocks (30 min);
\* the window and the lunch break are whole hours
HalfHours(hours) == hours % MIN_BLOCK_HOURS = 0
HalfHourTime(t) == t % 30 = 0

OnGrid ==
    /\ \A i \in TaskIds :
           /\ HalfHours(tasks[i].duration_hours)
           /\ IsPinned(i) => HalfHourTime(PinStart(i))
    /\ \A m \in DOMAIN occupied_slots :
           HalfHourTime(occupied_slots[m].start_time)
           /\ HalfHourTime(occupied_slots[m].end_time)
    /\ HalfHours(constraints.max_hours_per_day)
    /\ HalfHours(previous.constraints.max_hours_per_day)

\* the run follows a run on the same inputs with a larger max_hours_per_day
AfterLargerCap ==
    /\ Done /\ calls > 1
    /\ constraints.max_hours_per_day < previous.constraints.max_hours_per_day
    /\ constraints = [previous.constraints EXCEPT
                         !.max_hours_per_day = constraints.max_hours_per_day]

\* C13 as stated: of two runs that differ only in max_hours_per_day, the one
\* with the smaller value never has more tasks in scheduled_tasks.
C13_MonotonicCapacity ==
    AfterLargerCap =>
        Len(scheduled_tasks) <= Len(previous.result.scheduled_tasks)

\* C13 on half-hour inputs, where no remainder below the minimum block can
\* arise: when every task duration, both values of max_hours_per_day and
\* every slot and pinned time are multiples of 30 minutes, the run with the
\* smaller max_hours_per_day never has more tasks in scheduled_tasks, and
\* every task it schedules the other run schedules too.
C13_MonotonicCapacityOnGrid ==
    (AfterLargerCap /\ OnGrid) =>
        /\ Len(scheduled_tasks) <= Len(previous.result.scheduled_tasks)
        /\ \A i \in TaskIds :
               Count(scheduled_tasks, i) <= Count(previous.result.scheduled_tasks, i)

\* a run on half-hour inputs that schedules strictly fewer tasks than the run
\* with the larger cap before it, though not none
C13_OnGridWitness ==
    /\ AfterLargerCap /\ OnGrid
    /\ Len(scheduled_tasks) < Len(previous.result.scheduled_tasks)
    /\ Len(scheduled_tasks) > 0

\* C20: in a run generated after blocks were exported, no "task" agenda item
\* overlaps an exported interval of its date.  (Stated on the new run up to
\* the final sort of its agenda, which only reorders the items: once the run
\* is done its own blocks can be exported in turn.)
C20_NoTaskOnExported ==
    (calls > 1 /\ pc # "done") =>
        \A e \in DOMAIN exported : \A k \in TaskItemsOn(exported[e].date) :
            ~Overlap(calendar[exported[e].date][k], exported[e])

\* a new run whose agenda is complete, with a task item that starts exactly
\* when an exported block ends and a task item of another date
C20_Witness ==
    /\ calls > 1 /\ pc = "sort"
    /\ \E e \in DOMAIN exported : \E k \in TaskItemsOn(exported[e].date) :
           calendar[exported[e].date][k].start_time = exported[e].end_time
    /\ \E e \in DOMAIN exported : \E d \in Dates :
           d # exported[e].date /\ TaskItemsOn(d) # {}

\* Scenario A: one non-pinned 2 h task due today, 08:00-22:00, no lunch
\* break, no occupied slot
ScenarioA ==
    /\ Len(tasks) = 1
    /\ IsRegular(1) /\ tasks[1].duration_hours = 600 /\ tasks[1].deadline = 0
    /\ constraints.start_hour = 8 /\ constraints.end_hour = 22
    /\ ~constraints.lunch_break
    /\ occupied_slots = << >>

\* the task is scheduled in exactly one 2 h block today from 08:00
OneBlockAtOpening ==
    /\ is_scheduled[1] /\ ~is_impossible[1]
    /\ scheduled_tasks = <<1>> /\ impossible_tasks = << >>
    /\ scheduled_blocks[1] =
           << [date |-> 0, start_time |-> 480, end_time |-> 600, duration_hours |-> 600] >>
    /\ Len(calendar[0]) = 1
    /\ calendar[0][1].type = "task" /\ calendar[0][1].task_id = 1
    /\ calendar[0][1].start_time = 480 /\ calendar[0][1].end_time = 600
    /\ \A d \in Dates : d # 0 => calendar[d] = << >>

\* C17 as stated: a run of Scenario A ends with the task fully scheduled in
\* exactly one 2 h block dated today that starts at 08:00.
C17_ScenarioA ==
    (Done /\ ScenarioA) => OneBlockAtOpening

\* C17 amended: the same, when today is a working day (not a Sunday with
\* no_sunday set) and max_hours_per_day is at least 2 h.
C17_ScenarioAWorkingDay ==
    (Done /\ ScenarioA /\ ~(constraints.no_sunday /\ IsSunday(0))
          /\ constraints.max_hours_per_day >= 600)
        => OneBlockAtOpening

\* a finished run of Scenario A on a working day with a cap of exactly 2 h,
\* the task in one block
C17_Witness ==
    /\ Done /\ ScenarioA
    /\ ~(constraints.no_sunday /\ IsSunday(0))
    /\ constraints.max_hours_per_day = 600
    /\ Len(scheduled_blocks[1]) = 1

\* Scenario B: one non-pinned 10 h task due today, max_hours_per_day 8
ScenarioB ==
    /\ Len(tasks) = 1
    /\ IsRegular(1) /\ tasks[1].duration_hours = 3000 /\ tasks[1].deadline = 0
    /\ constraints.max_hours_per_day = 2400

\* C18: a run of Scenario B ends with the task impossible and not scheduled,
\* at most 8 h of it placed, all today, and a reason that reports the hours
\* obtained against the 10 h required.
C18_ScenarioB ==
    (Done /\ ScenarioB) =>
        /\ is_impossible[1] /\ ~is_scheduled[1]
        /\ scheduled_tasks = << >> /\ impossible_tasks = <<1>>
        /\ scheduled_hours(scheduled_blocks[1]) <= 2400
        /\ \A k \in DOMAIN scheduled_blocks[1] : scheduled_blocks[1][k].date = 0
        /\ TaskHours(calendar[0]) = scheduled_hours(scheduled_blocks[1])
        /\ impossible_reason[1].kind \in {"seulement", "pas assez"}
        /\ impossible_reason[1].a = scheduled_hours(scheduled_blocks[1])
        /\ impossible_reason[1].b = 3000

\* a finished run of Scenario B with exactly 8 h placed around the lunch
\* break and the reason "8 h of 10 h"
C18_Witness ==
    /\ Done /\ ScenarioB
    /\ Len(scheduled_blocks[1]) = 2
    /\ scheduled_hours(scheduled_blocks[1]) = 2400
    /\ impossible_reason[1] = [kind |-> "seulement", a |-> 2400, b |-> 3000]

\* the sort key of the claim with the input position appended
GreedyKey(i) ==
    <<tasks[i].deadline, 0 - PRIORITY_VALUES[tasks[i].priority],
      tasks[i].duration_hours, i>>

\* the regular task has been taken up and classified
Classified(i) == Count(scheduled_tasks, i) + Count(impossible_tasks, i) = 1

\* nothing of the run concerns the task yet
Untouched(i) ==
    /\ scheduled_blocks[i] = << >>
    /\ Count(scheduled_tasks, i) + Count(impossible_tasks, i) = 0
    /\ \A d \in Dates : \A k \in TaskItemsOn(d) : calendar[d][k].task_id # i
    /\ \A m \in DOMAIN messages : messages[m].task # i

\* C21: the greedy pass takes the non-pinned tasks one at a time in ascending
\* order of (days to deadline, negated priority weight, duration), input
\* order on full ties: while the pass runs, the tasks before the current
\* position are classified and those from it on are untouched; and whenever a
\* later task of the order holds a block on a date within an earlier task's
\* deadline, the earlier task had less than one minimum block left to place
\* (it could not have used that time).
C21_GreedyOneAtATimeInOrder ==
    \A order \in { _sort_tasks } :
        /\ \A k \in DOMAIN order : k > 1 =>
               LexLess(GreedyKey(order[k - 1]), GreedyKey(order[k]))
        /\ \A i \in TaskIds : IsRegular(i) => \E k \in DOMAIN order : order[k] = i
        /\ \A k \in DOMAIN order :
               /\ (pc = "pinned" \/ (pc = "greedy" /\ k >= pos)) => Untouched(order[k])
               /\ (pc \in {"sort", "done"} \/ (pc = "greedy" /\ k < pos))
                      => Classified(order[k])
        /\ \A ka, kb \in DOMAIN order : ka < kb =>
               \A n \in DOMAIN scheduled_blocks[order[kb]] :
                   scheduled_blocks[order[kb]][n].date <= tasks[order[ka]].deadline
                       => TooShort(remaining_hours(tasks[order[ka]].duration_hours,
                                                   scheduled_blocks[order[ka]]))

\* a result where the sorted order differs from the input order, the first
\* task of the order is left with a remainder below the minimum block after a
\* partial placement, and the second holds a block within the first's deadline
C21_Witness ==
    /\ Done
    /\ Len(_sort_tasks) = 2
    /\ _sort_tasks[1] > _sort_tasks[2]
    /\ is_impossible[_sort_tasks[1]]
    /\ scheduled_blocks[_sort_tasks[1]] # << >>
    /\ \E n \in DOMAIN scheduled_blocks[_sort_tasks[2]] :
           scheduled_blocks[_sort_tasks[2]][n].date <= tasks[_sort_tasks[1]].deadline

\* the pinned pass has examined the task
Examined(i) == pc # "pinned" \/ PinnedPos(i) < pos

\* the pinned interval lies inside the working window
InsideWindow(i) ==
    /\ HourTime(constraints.start_hour) <= PinStart(i)
    /\ PinEnd(i) <= HourTime(constraints.end_hour)

\* the pinned interval shares time with the interval start .. end
PinnedShares(i, start, end) == PinStart(i) < end /\ start < PinEnd(i)

\* C22: an examined pinned task is accepted exactly when its interval lies
\* inside the working window, overlaps no occupied slot of its date and
\* overlaps no pinned interval accepted before it on its date; a rejected one
\* reserves nothing: it has no block and no agenda item, and the accepted
\* pinned intervals are those of the accepted tasks and no other.
C22_PinnedAcceptedIff ==
    /\ \A i \in TaskIds : (IsPinned(i) /\ Examined(i)) =>
           /\ is_scheduled[i] <=>
                  /\ InsideWindow(i)
                  /\ \A m \in SlotsOn(PinDate(i)) :
                         ~PinnedShares(i, occupied_slots[m].start_time,
                                       occupied_slots[m].end_time)
                  /\ \A j \in TaskIds :
                         (IsPinned(j) /\ PinnedPos(j) < PinnedPos(i) /\ is_scheduled[j]
                              /\ PinDate(j) = PinDate(i))
                             => ~PinnedShares(i, PinStart(j), PinEnd(j))
           /\ is_impossible[i] <=> ~is_scheduled[i]
           /\ is_impossible[i] =>
                  /\ scheduled_blocks[i] = << >>
                  /\ \A d \in Dates : \A k \in TaskItemsOn(d) : calendar[d][k].task_id # i
    /\ Len(pinned_occupied) = Cardinality({ i \in TaskIds : IsPinned(i) /\ is_scheduled[i] })
    /\ \A k \in DOMAIN pinned_occupied : \E i \in TaskIds :
           /\ IsPinned(i) /\ is_scheduled[i]
           /\ pinned_occupied[k] = <<PinDate(i), PinStart(i), PinEnd(i)>>

\* a result where a pinned task is rejected for an occupied slot, a later
\* pinned task that overlaps it is accepted, a greedy block lies inside the
\* rejected task's interval, and an accepted pinned task ends exactly when an
\* occupied slot starts
C22_Witness ==
    /\ Done
    /\ \E i, j, r \in TaskIds :
           /\ IsPinned(i) /\ is_impossible[i]
           /\ impossible_reason[i].kind = "conflit occupe"
           /\ PinnedOverlap(i, j) /\ PinnedPos(i) < PinnedPos(j) /\ is_scheduled[j]
           /\ IsRegular(r)
           /\ \E n \in DOMAIN scheduled_blocks[r] :
                  /\ PinStart(i) <= scheduled_blocks[r][n].start_time
                  /\ scheduled_blocks[r][n].end_time <= PinEnd(i)
    /\ \E i \in TaskIds : \E m \in DOMAIN occupied_slots :
           /\ IsPinned(i) /\ is_scheduled[i]
           /\ occupied_slots[m].date = PinDate(i)
           /\ occupied_slots[m].start_time = PinEnd(i)

\* the hours of the blocks of date d among a list of blocks
HoursOn(blocks, d) ==
    LET OnDay(b) == b.date = d
    IN  scheduled_hours(SelectSeq(blocks, OnDay))

Min3(a, b, c) == Min2(Min2(a, b), c)

\* the free intervals of date d once the given blocks are cut from their
\* starts: an interval on which a block starts keeps what lies after the
\* block's end, any other interval is kept as it is
RECURSIVE AfterBlocks(_, _, _)
AfterBlocks(slots, blocks, d) ==
    IF slots = << >> THEN << >>
    ELSE LET On(b) == b.date = d /\ b.start_time = Head(slots)[1]
             cut == SelectSeq(blocks, On)
         IN  (IF cut = << >> THEN <<Head(slots)>>
              ELSE IF cut[1].end_time < Head(slots)[2]
                   THEN << <<cut[1].end_time, Head(slots)[2]>> >>
                   ELSE << >>)
             \o AfterBlocks(Tail(slots), blocks, d)

\* C23: in every step of the greedy pass, each block the task receives starts
\* at the start of a free interval of its date, lasts exactly the minimum of
\* the task's remaining duration, the interval's duration and the date's
\* remaining capacity at the moment of placement, at least 30 minutes, and
\* ends that long after its start; an interval that received no block is
\* left as it was, and one that received a block keeps only what follows it.
C23_BlockIsMinOfThree ==
    [][(pc = "greedy" /\ pos' = pos + 1) =>
         LET i == _sort_tasks[pos]
             old == Len(scheduled_blocks[i])
             new == scheduled_blocks'[i]
         IN  /\ SubSeq(new, 1, old) = scheduled_blocks[i]
             /\ \A n \in (old + 1) .. Len(new) :
                    LET b == new[n]
                        remaining == remaining_hours(tasks[i].duration_hours,
                                                     SubSeq(new, 1, n - 1))
                        capacity == constraints.max_hours_per_day
                                    - TaskHours(calendar[b.date])
                                    - HoursOn(SubSeq(new, old + 1, n - 1), b.date)
                    IN  /\ \E k \in DOMAIN free_slots[b.date] :
                               /\ free_slots[b.date][k][1] = b.start_time
                               /\ b.duration_hours =
                                      Min3(remaining,
                                           (free_slots[b.date][k][2] - b.start_time) * 5,
                                           capacity)
                        /\ b.duration_hours >= MIN_BLOCK_HOURS
                        /\ b.end_time = _add_hours_to_time(b.start_time, b.duration_hours)
                        /\ \A m \in (old + 1) .. Len(new) :
                               (m # n /\ new[m].date = b.date)
                                   => new[m].start_time # b.start_time
             /\ \A d \in Dates :
                    free_slots'[d] =
                        AfterBlocks(free_slots[d], SubSeq(new, old + 1, Len(new)), d)
      ]_vars

\* a result where a task holds two blocks of one date, the first as long as
\* its free interval, and a task is left with less than 30 minutes to place
\* although a free interval and capacity remain on a date within its deadline
C23_Witness ==
    /\ Done
    /\ \E i \in TaskIds : \E m, n \in DOMAIN scheduled_blocks[i] :
           /\ IsRegular(i) /\ m < n
           /\ scheduled_blocks[i][m].date = scheduled_blocks[i][n].date
    /\ \E i \in TaskIds : \E d \in 0 .. HorizonDays :
           /\ IsRegular(i) /\ is_impossible[i] /\ scheduled_blocks[i] # << >>
           /\ d <= tasks[i].deadline
           /\ free_slots[d] # << >>
           /\ constraints.max_hours_per_day - TaskHours(calendar[d]) >= MIN_BLOCK_HOURS

\* the free minutes of the dates up to the deadline: the minutes of the
\* working window that lie in a free interval of their date
FreeMinutes(deadline) ==
    { <<d, t>> \in Dates \X (HourTime(constraints.start_hour)
                              .. (HourTime(constraints.end_hour) - 1)) :
        /\ d <= deadline
        /\ \E k \in DOMAIN free_slots[d] :
               free_slots[d][k][1] <= t /\ t < free_slots[d][k][2] }

\* C24: when the greedy pass classifies a task that received no block, the
\* reason is the numeric shortfall exactly when the free intervals remaining
\* at that moment on the dates up to the task's deadline total less than the
\* task's duration, and then it reports that total and the duration;
\* otherwise it is the "deadline exceeded or overloaded" reason.
C24_ShortfallIffTooLittleFree ==
    [][(pc = "greedy" /\ pos' = pos + 1 /\ scheduled_blocks'[_sort_tasks[pos]] = << >>
          /\ is_impossible'[_sort_tasks[pos]]) =>
         LET i == _sort_tasks[pos]
             total == 5 * Cardinality(FreeMinutes(tasks[i].deadline))
         IN  /\ free_slots' = free_slots
             /\ impossible_reason'[i] =
                    IF total < tasks[i].duration_hours
                    THEN [kind |-> "pas assez", a |-> total, b |-> tasks[i].duration_hours]
                    ELSE [kind |-> "surcharge", a |-> 0, b |-> 0]
      ]_vars

\* a result with a task that received no block although some free time is
\* left within its deadline, less than its duration, which its reason reports
C24_Witness ==
    /\ Done
    /\ \E i \in TaskIds :
           /\ IsRegular(i) /\ scheduled_blocks[i] = << >>
           /\ impossible_reason[i].kind = "pas assez"
           /\ impossible_reason[i].a > 0
           /\ impossible_reason[i].a < tasks[i].duration_hours

\* minute t of date d lies in the working window, outside the lunch break
\* when it is enabled, in no occupied slot and in no accepted pinned interval
FreeMinute(d, t) ==
    /\ HourTime(constraints.start_hour) <= t /\ t < HourTime(constraints.end_hour)
    /\ ~(constraints.lunch_break /\ LUNCH_START <= t /\ t < LUNCH_END)
    /\ \A m \in SlotsOn(d) :
           ~(occupied_slots[m].start_time <= t /\ t < occupied_slots[m].end_time)
    /\ \A k \in DOMAIN pinned_occupied :
           pinned_occupied[k][1] = d
               => ~(pinned_occupied[k][2] <= t /\ t < pinned_occupied[k][3])

WindowMinutes == HourTime(constraints.start_hour) .. (HourTime(constraints.end_hour) - 1)

\* minute t lies in one of the intervals
Covered(slots, t) == \E k \in DOMAIN slots : slots[k][1] <= t /\ t < slots[k][2]

\* the ranges _compute_free_slots subtracts on date d
RangesOn(d) ==
    (IF constraints.lunch_break THEN { <<LUNCH_START, LUNCH_END>> } ELSE {})
    \cup { <<occupied_slots[m].start_time, occupied_slots[m].end_time>> : m \in SlotsOn(d) }
    \cup { <<pinned_occupied[k][2], pinned_occupied[k][3]>> :
             k \in { n \in DOMAIN pinned_occupied : pinned_occupied[n][1] = d } }

\* the ends of the window and of the lunch break: the intervals between two
\* of them are the ones the subtractions are tried on
Cuts ==
    { HourTime(constraints.start_hour), HourTime(constraints.end_hour) }
    \cup { t \in {LUNCH_START, LUNCH_END} :
             HourTime(constraints.start_hour) < t /\ t < HourTime(constraints.end_hour) }

\* C25: once the pinned pass is over, for every date _compute_free_slots
\* returns intervals of at least 30 minutes, in ascending order and pairwise
\* disjoint, each a maximal stretch of free minutes (in the window, outside
\* lunch when enabled, outside every occupied slot and accepted pinned
\* interval of the date), and every free minute it leaves out lies in a
\* stretch shorter than 30 minutes; generate_schedule stores them for the
\* working days of the horizon; and one subtraction turns an interval into
\* none (range covers it), two (range strictly inside) or one, the interval
\* itself when the range does not overlap it, removing exactly the range
\* (compared at the first and last minutes of the interval and of the range).
C25_FreeSlotsExact ==
    (pc = "greedy" /\ pos = 1) =>
        \A d \in Dates : \A slots \in { _compute_free_slots(d, pinned_occupied) } :
                /\ \A k \in DOMAIN slots :
                       /\ slots[k][2] - slots[k][1] >= 30
                       /\ k > 1 => slots[k - 1][2] <= slots[k][1]
                       /\ \A t \in slots[k][1] .. (slots[k][2] - 1) : FreeMinute(d, t)
                       /\ ~FreeMinute(d, slots[k][1] - 1)
                       /\ ~FreeMinute(d, slots[k][2])
                /\ \A t \in WindowMinutes :
                       (FreeMinute(d, t) /\ ~Covered(slots, t)) =>
                           ~\E a \in (t - 29) .. t :
                                \A u \in a .. (a + 29) : FreeMinute(d, u)
                /\ free_slots[d] = IF d \in 0 .. HorizonDays /\ _is_working_day(d)
                                   THEN slots ELSE << >>
                /\ \A a, b \in Cuts : \A r \in RangesOn(d) :
                       (a < b) =>
                           \A res \in { SubtractOne(a, b, r[1], r[2]) } :
                               /\ Len(res) <= 2
                               /\ (r[2] <= a \/ r[1] >= b) => res = << <<a, b>> >>
                               /\ Len(res) = 0 <=> (r[1] <= a /\ r[2] >= b)
                               /\ Len(res) = 2 <=> (r[1] > a /\ r[2] < b)
                               /\ \A t \in {a, b - 1, r[1] - 1, r[1], r[2] - 1, r[2]}
                                              \cap (a .. (b - 1)) :
                                      Covered(res, t) <=> ~(r[1] <= t /\ t < r[2])

\* the free slots of a run where one date has two free intervals, a free
\* stretch shorter than 30 minutes was dropped, and an accepted pinned
\* interval was cut out next to an interval that is kept
C25_Witness ==
    /\ pc = "greedy" /\ pos = 1
    /\ \E d \in Dates : Len(free_slots[d]) >= 2
    /\ \E d \in 0 .. HorizonDays : \E t \in WindowMinutes :
           _is_working_day(d) /\ FreeMinute(d, t) /\ ~Covered(free_slots[d], t)
    /\ \E k \in DOMAIN pinned_occupied : \E n \in DOMAIN free_slots[pinned_occupied[k][1]] :
           free_slots[pinned_occupied[k][1]][n][2] = pinned_occupied[k][2]

\* C26 as stated: in TaskPlanner.plan_tasks the scheduled slots of two
\* different planned tasks never overlap in time.
C26_PlannedSlotsDisjoint ==
    \A i, j \in PlannerIds :
        (i # j /\ is_planned[i] /\ is_planned[j]) =>
            \A m \in DOMAIN scheduled_slots[i] : \A n \in DOMAIN scheduled_slots[j] :
                ~(scheduled_slots[i][m][1] < scheduled_slots[j][n][2]
                  /\ scheduled_slots[j][n][1] < scheduled_slots[i][m][2])

\* the hours of date d held by the blocks of all tasks
RECURSIVE AllHoursOn(_, _)
AllHoursOn(i, d) ==
    IF i = 0 THEN 0 ELSE HoursOn(scheduled_blocks[i], d) + AllHoursOn(i - 1, d)

\* a non-pinned task classified impossible that holds blocks
PartiallyPlaced(i) == IsRegular(i) /\ is_impossible[i] /\ scheduled_blocks[i] # << >>

\* C27: a non-pinned task classified impossible after a partial placement
\* keeps its blocks: each is an agenda item of its date, no free interval of
\* that date overlaps it, and the task hours of every date count the blocks
\* of all tasks, the impossible ones included, so neither the time nor the
\* daily capacity is given back to the tasks processed later.
C27_PartialBlocksKept ==
    /\ \A i \in TaskIds : PartiallyPlaced(i) =>
           \A n \in DOMAIN scheduled_blocks[i] :
               /\ \E k \in TaskItemsOn(scheduled_blocks[i][n].date) :
                      /\ calendar[scheduled_blocks[i][n].date][k].task_id = i
                      /\ calendar[scheduled_blocks[i][n].date][k].start_time
                             = scheduled_blocks[i][n].start_time
                      /\ calendar[scheduled_blocks[i][n].date][k].end_time
                             = scheduled_blocks[i][n].end_time
                      /\ calendar[scheduled_blocks[i][n].date][k].duration_hours
                             = scheduled_blocks[i][n].duration_hours
               /\ \A f \in DOMAIN free_slots[scheduled_blocks[i][n].date] :
                      \/ free_slots[scheduled_blocks[i][n].date][f][2]
                             <= scheduled_blocks[i][n].start_time
                      \/ free_slots[scheduled_blocks[i][n].date][f][1]
                             >= scheduled_blocks[i][n].end_time
    /\ \A d \in Dates : TaskHours(calendar[d]) = AllHoursOn(Len(tasks), d)

\* a result where the first task of the order is impossible after a partial
\* placement on a date, and the second has no block on that date although a
\* free interval of 30 minutes is left there within its deadline: the date's
\* capacity is used up, and would not be without the first task's blocks
C27_Witness ==
    /\ Done
    /\ Len(_sort_tasks) = 2
    /\ PartiallyPlaced(_sort_tasks[1])
    /\ \E d \in 0 .. HorizonDays :
           /\ HoursOn(scheduled_blocks[_sort_tasks[1]], d) > 0
           /\ HoursOn(scheduled_blocks[_sort_tasks[2]], d) = 0
           /\ d <= tasks[_sort_tasks[2]].deadline
           /\ \E f \in DOMAIN free_slots[d] : LongEnough(free_slots[d][f])
           /\ TooShort(AvailableToday(calendar, d))
           /\ ~TooShort(AvailableToday(calendar, d)
                        + HoursOn(scheduled_blocks[_sort_tasks[1]], d))

\* what was left of the task when its n-th block was placed
RemainingBefore(i, n) ==
    remaining_hours(tasks[i].duration_hours, SubSeq(scheduled_blocks[i], 1, n - 1))

\* positive (at least 0.01 h) but below 30 minutes
BelowMinBlock(hours) == hours >= EPSILON /\ hours < MIN_BLOCK_HOURS

\* a free interval of 30 minutes and 30 minutes of capacity are left on a
\* date up to the deadline of task i
RoomLeft(i) ==
    \E d \in 0 .. HorizonDays :
        /\ d <= tasks[i].deadline
        /\ ~TooShort(AvailableToday(calendar, d))
        /\ \E f \in DOMAIN free_slots[d] : LongEnough(free_slots[d][f])

\* C28: a non-pinned task with between 0.01 h and 30 minutes left receives
\* no block: none of its blocks was placed with so little left; once
\* classified, a task that asked for less than 30 minutes is impossible with
\* no block and a reason of _explain_impossible, and a task with blocks and
\* such a remainder is impossible with the partial-placement reason.
C28_NoBlockBelowMinimum ==
    \A i \in TaskIds : IsRegular(i) =>
        /\ \A n \in DOMAIN scheduled_blocks[i] : ~BelowMinBlock(RemainingBefore(i, n))
        /\ Classified(i) /\ BelowMinBlock(tasks[i].duration_hours) =>
               /\ is_impossible[i] /\ ~is_scheduled[i]
               /\ Count(impossible_tasks, i) = 1
               /\ scheduled_blocks[i] = << >>
               /\ impossible_reason[i].kind \in {"pas assez", "surcharge"}
        /\ ( /\ Classified(i)
             /\ scheduled_blocks[i] # << >>
             /\ BelowMinBlock(remaining_hours(tasks[i].duration_hours,
                                              scheduled_blocks[i])) ) =>
               /\ is_impossible[i] /\ ~is_scheduled[i]
               /\ Count(impossible_tasks, i) = 1
               /\ impossible_reason[i] =
                      [kind |-> "seulement", a |-> scheduled_hours(scheduled_blocks[i]),
                       b |-> tasks[i].duration_hours]

\* a result with a task that asked for less than 30 minutes and has nothing,
\* and a task with blocks left with less than 30 minutes, both with a free
\* interval and capacity left before their deadline
C28_Witness ==
    /\ Done
    /\ \E i, j \in TaskIds :
           /\ IsRegular(i) /\ IsRegular(j)
           /\ BelowMinBlock(tasks[i].duration_hours)
           /\ is_impossible[i] /\ scheduled_blocks[i] = << >> /\ RoomLeft(i)
           /\ scheduled_blocks[j] # << >>
           /\ BelowMinBlock(remaining_hours(tasks[j].duration_hours, scheduled_blocks[j]))
           /\ is_impossible[j] /\ RoomLeft(j)

\* the block of task i was exported before this run was generated: it is one
\* of the "Exporte" slots that follow the session's slots in occupied_slots
InjectedExport(i) ==
    \E k \in DOMAIN exported :
        /\ exported[k].task = i
        /\ Len(session_slots) + k <= Len(occupied_slots)
        /\ occupied_slots[Len(session_slots) + k] =
               Slot(exported[k].date, exported[k].start_time, exported[k].end_time,
                    "Exporte")

\* C29: run, export, run again: a pinned task whose block was exported (it
\* was accepted in the run that was exported) is rejected by the next run on
\* the same tasks, session slots and constraints: it is impossible, in
\* impossible_tasks and not in scheduled_tasks, it has no block, and its
\* reason is the conflict with the occupied slot that is its own exported
\* block.
C29_ExportedPinnedRejected ==
    \A i \in TaskIds : (IsPinned(i) /\ InjectedExport(i) /\ Examined(i)) =>
        /\ is_impossible[i] /\ ~is_scheduled[i]
        /\ Count(impossible_tasks, i) = 1
        /\ Count(scheduled_tasks, i) = 0
        /\ scheduled_blocks[i] = << >>
        /\ impossible_reason[i] =
               [kind |-> "conflit occupe", a |-> PinStart(i), b |-> PinEnd(i)]

\* the second run is done: a pinned task that the first run had in
\* scheduled_tasks, and whose block was exported in between, is now in
\* impossible_tasks
C29_Witness ==
    /\ calls = 2 /\ Done
    /\ \E i \in TaskIds :
           /\ IsPinned(i) /\ InjectedExport(i)
           /\ Count(previous.result.scheduled_tasks, i) = 1
           /\ Count(previous.result.impossible_tasks, i) = 0
           /\ Count(impossible_tasks, i) = 1

\* the number of pinned and of non-pinned tasks the run has decided so far
PinnedDecided == IF pc = "pinned" THEN pos - 1 ELSE Len(PinnedOrder)
GreedyDecided ==
    IF pc = "pinned" THEN 0 ELSE IF pc = "greedy" THEN pos - 1 ELSE Len(_sort_tasks)

\* the one message of a decided pinned task, read from its outcome
PinnedTrace(i) ==
    IF is_impossible[i]
    THEN << [kind |-> "fixe impossible", task |-> i, date |-> 0, start_time |-> 0,
             end_time |-> 0, hours |-> 0, reason |-> impossible_reason[i]] >>
    ELSE << [kind |-> "fixe", task |-> i, date |-> PinDate(i), start_time |-> PinStart(i),
             end_time |-> PinEnd(i), hours |-> tasks[i].duration_hours,
             reason |-> NoReason] >>

\* the messages of a decided non-pinned task, read from its outcome: one per
\* block in the order of the blocks, then the verdict if it is impossible
GreedyTrace(i) ==
    [k \in DOMAIN scheduled_blocks[i] |->
        [kind |-> "bloc", task |-> i, date |-> scheduled_blocks[i][k].date,
         start_time |-> scheduled_blocks[i][k].start_time,
         end_time |-> scheduled_blocks[i][k].end_time,
         hours |-> scheduled_blocks[i][k].duration_hours, reason |-> NoReason]]
    \o (IF is_impossible[i]
        THEN << [kind |-> IF scheduled_blocks[i] = << >> THEN "non planifiable"
                          ELSE "partielle",
                 task |-> i, date |-> 0, start_time |-> 0, end_time |-> 0, hours |-> 0,
                 reason |-> impossible_reason[i]] >>
        ELSE << >>)

RECURSIVE PinnedTraces(_, _)
PinnedTraces(order, n) ==
    IF n = 0 THEN << >> ELSE PinnedTraces(order, n - 1) \o PinnedTrace(order[n])

RECURSIVE GreedyTraces(_, _)
GreedyTraces(order, n) ==
    IF n = 0 THEN << >> ELSE GreedyTraces(order, n - 1) \o GreedyTrace(order[n])

RECURSIVE TaskItemCount(_)
TaskItemCount(d) ==
    IF d > HorizonDays + 1 THEN 0 ELSE Cardinality(TaskItemsOn(d)) + TaskItemCount(d + 1)

IsBlockMessage(m) == m.kind \in {"bloc", "fixe"}
IsVerdictMessage(m) == m.kind \in {"partielle", "non planifiable", "fixe impossible"}
IsPinnedMessage(m) == m.kind \in {"fixe", "fixe impossible"}
GreedyPos(i) == CHOOSE k \in DOMAIN _sort_tasks : _sort_tasks[k] = i

\* C30: the messages are one per placed block and one per impossible task
\* (as many as "task" agenda items plus impossible tasks): every block
\* message has its agenda item and every impossible task exactly one verdict
\* message; the messages of the pinned tasks come before those of the
\* non-pinned tasks; the messages of a non-pinned task are contiguous, in the
\* processing order of the tasks, with the verdict last; and the whole list
\* is the one read back from the outcomes: pinned tasks in the order they are
\* examined, then non-pinned tasks in processing order, each with its block
\* messages in placement order followed at once by its verdict if impossible.
C30_TraceCompleteInOrder ==
    /\ Len(messages) = TaskItemCount(0 - 1) + Len(impossible_tasks)
    /\ \A a \in DOMAIN messages :
          /\ IsBlockMessage(messages[a]) \/ IsVerdictMessage(messages[a])
          /\ IsPinnedMessage(messages[a]) <=> IsPinned(messages[a].task)
          /\ IsBlockMessage(messages[a]) =>
                \E k \in TaskItemsOn(messages[a].date) :
                    /\ calendar[messages[a].date][k].task_id = messages[a].task
                    /\ calendar[messages[a].date][k].start_time = messages[a].start_time
                    /\ calendar[messages[a].date][k].end_time = messages[a].end_time
          /\ IsVerdictMessage(messages[a]) =>
                Count(impossible_tasks, messages[a].task) = 1
    /\ \A i \in TaskIds : Count(impossible_tasks, i) = 1 =>
          Cardinality({ a \in DOMAIN messages :
                          messages[a].task = i /\ IsVerdictMessage(messages[a]) }) = 1
    /\ \A a, b \in DOMAIN messages : a < b =>
          /\ ~(~IsPinnedMessage(messages[a]) /\ IsPinnedMessage(messages[b]))
          /\ messages[a].task = messages[b].task => ~IsVerdictMessage(messages[a])
          /\ ( /\ ~IsPinnedMessage(messages[a])
               /\ ~IsPinnedMessage(messages[b])
               /\ messages[a].task # messages[b].task ) =>
                GreedyPos(messages[a].task) < GreedyPos(messages[b].task)
    /\ messages = PinnedTraces(PinnedOrder, PinnedDecided)
                  \o GreedyTraces(_sort_tasks, GreedyDecided)

\* a finished run whose first message is that of a pinned task and whose
\* last three are two blocks of a non-pinned task and its partial verdict
C30_Witness ==
    /\ Done
    /\ Len(messages) >= 4
    /\ IsPinned(messages[1].task)
    /\ messages[Len(messages) - 2].kind = "bloc"
    /\ messages[Len(messages) - 1].kind = "bloc"
    /\ messages[Len(messages)].kind = "partielle"
    /\ messages[Len(messages) - 2].task = messages[Len(messages)].task
    /\ messages[Len(messages) - 1].task = messages[Len(messages)].task

====
